---- MODULE Spec2Model ----
(***************************************************************************)
(* Model of the Aadhaar data pipeline (src/lib/data_pipeline.py): the      *)
(* AadhaarDataPipeline object with its three stored datasets, the loader,  *)
(* the three cleaners and the migration / biometric calculations.          *)
(*                                                                         *)
(* A pandas DataFrame is a record                                          *)
(*   [loaded, columns, dtypes, rows]                                       *)
(* where rows is the sequence of rows in order, each row carrying its      *)
(* index label i and its cells c (a function from column name to cell).    *)
(* A cell is a record [t, v, w, d, e]: t is the kind of value and v its     *)
(* content.  A float is modelled exactly: t = "num" is the real number     *)
(* (v + w*eps) / (d + e*eps) with eps = 1e-6 (the guard the code adds to   *)
(* its denominators), t = "NaN", "inf" and "ninf" are the special floats.  *)
(* Rounding of the 64-bit floats is not modelled.                          *)
(***************************************************************************)
EXTENDS Integers, Sequences, FiniteSets, TLC

\* the three stored datasets of the pipeline object; op is the operation
\* called last, arg the dataset it was called on, ret the value it returned
\* and err the exception it raised ("none" when it returned)
VARIABLES enrolment_df, demographic_df, biometric_df, op, ret, err, arg,
          read, isolation_forest, lof, scaler, kmeans_model, kmeans_scaler

\* read is the set of the datasets some load_datasets call has read so far.
\* isolation_forest, lof and scaler are the fields of an AnomalyDetector
\* object, kmeans_model and kmeans_scaler (its field scaler) those of a
\* PopulationClusterer object (src/lib/ml_models.py)
vars == <<enrolment_df, demographic_df, biometric_df, op, ret, err, arg,
          read, isolation_forest, lof, scaler, kmeans_model, kmeans_scaler>>
dfs == <<enrolment_df, demographic_df, biometric_df>>
ml == <<isolation_forest, lof, scaler, kmeans_model, kmeans_scaler>>

\* a model field that holds None, and the AnomalyDetector and
\* PopulationClusterer objects after their construction
NoModel == [fitted |-> FALSE]
NoModels ==
  /\ isolation_forest = NoModel
  /\ lof = NoModel
  /\ scaler = NoModel
  /\ kmeans_model = NoModel
  /\ kmeans_scaler = NoModel

(***************************************************************************)
(* Bounds                                                                  *)
(***************************************************************************)
MaxRows == 3

(***************************************************************************)
(* Cells                                                                   *)
(***************************************************************************)
Cell(t, v) == [t |-> t, v |-> v, w |-> 0, d |-> 1, e |-> 0]
NaN == Cell("NaN", 0)
Num(n) == Cell("num", n)
\* a Timestamp
Date(n) == Cell("date", n)
\* a Python str holding the decimal text of the number n, e.g. "100"
StrNum(n) == Cell("str_num", n)
\* a Python str holding a parseable date, e.g. "2020-01-01"
StrDate(n) == Cell("str_date", n)
\* a Python str that is neither a number nor a date; n identifies the text
\* and orders it among the texts
StrOther(n) == Cell("str_other", n)

isnull(c) == c.t = "NaN"
isstr(c) == c.t \in {"str_num", "str_date", "str_other"}

(***************************************************************************)
(* Float arithmetic, exact over the numbers (v + w*eps) / (d + e*eps)      *)
(***************************************************************************)
\* 1 / 1e-6
EpsInv == 1000000

Inf == Cell("inf", 0)
NInf == Cell("ninf", 0)

\* a result outside the modelled numbers stops the evaluation
Unrepresentable == CHOOSE x \in {} : TRUE

Abs(n) == IF n < 0 THEN -n ELSE n
Sgn(n) == IF n > 0 THEN 1 ELSE IF n < 0 THEN -1 ELSE 0

RECURSIVE GCD(_, _)
GCD(a, b) == IF b = 0 THEN a ELSE GCD(b, a % b)

\* the sign of a + b*eps + c*eps^2
SgnEps(a, b, c) ==
  IF Abs(b) >= EpsInv \/ Abs(c) >= EpsInv THEN Unrepresentable
  ELSE IF a # 0 THEN Sgn(a) ELSE IF b # 0 THEN Sgn(b) ELSE Sgn(c)

\* the number (v + w*eps) / (d + e*eps) in lowest terms, denominator
\* positive; a numerator that is a multiple of the denominator is divided
\* by it
Frac(v, w, d, e) ==
  LET s == SgnEps(d, e, 0)
      g == GCD(GCD(Abs(v), Abs(w)), GCD(Abs(d), Abs(e)))
      n == IF d # 0 THEN v ELSE w
      m == IF d # 0 THEN d ELSE e
      h == GCD(Abs(n), Abs(m))
  IN IF v = 0 /\ w = 0 THEN Cell("num", 0)
     ELSE IF v * e = w * d
     THEN [t |-> "num", v |-> (Sgn(m) * n) \div h, w |-> 0,
           d |-> (Sgn(m) * m) \div h, e |-> 0]
     ELSE [t |-> "num", v |-> (s * v) \div g, w |-> (s * w) \div g,
           d |-> (s * d) \div g, e |-> (s * e) \div g]

\* the float 1e-6
Eps == Frac(0, 1, 1, 0)

\* (a + b*eps) * (c + d*eps), which must have no eps^2 term
PolyMul(a, b, c, d) ==
  IF b * d # 0 THEN Unrepresentable ELSE <<a * c, a * d + b * c>>

FSgn(x) ==
  IF x.t = "inf" THEN 1 ELSE IF x.t = "ninf" THEN -1 ELSE SgnEps(x.v, x.w, 0)

FNeg(x) ==
  IF x.t = "NaN" THEN NaN
  ELSE IF x.t = "inf" THEN NInf
  ELSE IF x.t = "ninf" THEN Inf
  ELSE [x EXCEPT !.v = -x.v, !.w = -x.w]

\* x + y
FAdd(x, y) ==
  IF x.t = "NaN" \/ y.t = "NaN" THEN NaN
  ELSE IF x.t = "inf" THEN (IF y.t = "ninf" THEN NaN ELSE Inf)
  ELSE IF x.t = "ninf" THEN (IF y.t = "inf" THEN NaN ELSE NInf)
  ELSE IF y.t \in {"inf", "ninf"} THEN y
  ELSE IF x.d = y.d /\ x.e = y.e THEN Frac(x.v + y.v, x.w + y.w, x.d, x.e)
  ELSE LET p == PolyMul(x.v, x.w, y.d, y.e)
           q == PolyMul(y.v, y.w, x.d, x.e)
           r == PolyMul(x.d, x.e, y.d, y.e)
       IN Frac(p[1] + q[1], p[2] + q[2], r[1], r[2])

\* x - y
FSub(x, y) == FAdd(x, FNeg(y))

\* x * y
FMul(x, y) ==
  IF x.t = "NaN" \/ y.t = "NaN" THEN NaN
  ELSE IF x.t \in {"inf", "ninf"} \/ y.t \in {"inf", "ninf"}
  THEN (IF FSgn(x) * FSgn(y) = 0 THEN NaN
        ELSE IF FSgn(x) * FSgn(y) > 0 THEN Inf ELSE NInf)
  ELSE LET p == PolyMul(x.v, x.w, y.v, y.w)
           r == PolyMul(x.d, x.e, y.d, y.e)
       IN Frac(p[1], p[2], r[1], r[2])

\* x / y; a division by zero gives inf, -inf or NaN as numpy does
FDiv(x, y) ==
  IF x.t = "NaN" \/ y.t = "NaN" THEN NaN
  ELSE IF x.t \in {"inf", "ninf"}
  THEN (IF y.t \in {"inf", "ninf"} THEN NaN
        ELSE IF FSgn(x) * (IF FSgn(y) < 0 THEN -1 ELSE 1) > 0 THEN Inf ELSE NInf)
  ELSE IF y.t \in {"inf", "ninf"} THEN Num(0)
  ELSE IF FSgn(y) = 0
  THEN (IF FSgn(x) = 0 THEN NaN ELSE IF FSgn(x) > 0 THEN Inf ELSE NInf)
  ELSE LET p == PolyMul(x.v, x.w, y.d, y.e)
           r == PolyMul(x.d, x.e, y.v, y.w)
       IN Frac(p[1], p[2], r[1], r[2])

\* x < y, for floats that are not NaN
FLess(x, y) ==
  IF x.t = "inf" \/ y.t = "ninf" THEN FALSE
  ELSE IF x.t = "ninf" \/ y.t = "inf" THEN TRUE
  ELSE SgnEps(x.v * y.d - y.v * x.d,
              x.v * y.e + x.w * y.d - y.v * x.e - y.w * x.d,
              x.w * y.e - y.w * x.e) < 0

\* x <= y, for floats that are not NaN
FLeq(x, y) == ~FLess(y, x)

\* Series.min() and Series.max(): missing values are skipped
series_min(s) ==
  LET vals == {s[k] : k \in {j \in DOMAIN s : s[j].t # "NaN"}}
  IN IF vals = {} THEN NaN ELSE CHOOSE x \in vals : \A y \in vals : FLeq(x, y)

series_max(s) ==
  LET vals == {s[k] : k \in {j \in DOMAIN s : s[j].t # "NaN"}}
  IN IF vals = {} THEN NaN ELSE CHOOSE x \in vals : \A y \in vals : FLeq(y, x)

\* Series.fillna(value)
series_fillna(s, value) == [k \in DOMAIN s |-> IF s[k].t = "NaN" THEN value ELSE s[k]]

(***************************************************************************)
(* DataFrames                                                              *)
(***************************************************************************)
None == [loaded |-> FALSE, columns |-> <<>>, dtypes |-> <<>>, rows |-> <<>>]
IsNone(df) == ~df.loaded

Range(s) == {s[k] : k \in DOMAIN s}
ColSet(df) == Range(df.columns)
Series(df, col) == [k \in 1..Len(df.rows) |-> df.rows[k].c[col]]

\* replace the cells of every column col by f[col], a series of the same length
WithSeries(df, f) ==
  [df EXCEPT !.rows = [k \in 1..Len(df.rows) |->
      [df.rows[k] EXCEPT !.c = [col \in ColSet(df) |-> f[col][k]]]]]

\* 'date' in col.lower() or 'month' in col.lower(), over the column names
\* that occur in the modelled datasets
IsDateCol(col) == col \in {"Date", "Month"}

\* pd.read_csv: a RangeIndex, a column is numeric when all its values are
\* numbers or missing, otherwise object (its values are then strings)
read_csv(cellrows, columns) ==
  LET n == Len(cellrows)
      numeric(col) == n > 0 /\ \A k \in 1..n : cellrows[k][col].t \in {"num", "NaN"}
  IN [loaded |-> TRUE,
      columns |-> columns,
      dtypes |-> [col \in Range(columns) |-> IF numeric(col) THEN "number" ELSE "object"],
      rows |-> [k \in 1..n |-> [i |-> k - 1, c |-> cellrows[k]]]]

\* what a CSV file can contain: an object column holds only strings and
\* missing values, and at least one string that is not a number
IsCSV(df) ==
  \A col \in ColSet(df) :
    df.dtypes[col] = "object" =>
      /\ \A k \in 1..Len(df.rows) : df.rows[k].c[col].t # "num"
      /\ Len(df.rows) > 0 => \E k \in 1..Len(df.rows) :
            df.rows[k].c[col].t \in {"str_date", "str_other"}

(***************************************************************************)
(* pandas operations used by the cleaners                                  *)
(***************************************************************************)
ffill_series(s) ==
  LET F[k \in 0..Len(s)] ==
        IF k = 0 THEN NaN ELSE IF ~isnull(s[k]) THEN s[k] ELSE F[k - 1]
  IN [k \in 1..Len(s) |-> F[k]]

bfill_series(s) ==
  LET n == Len(s)
      B[k \in 1..(n + 1)] ==
        IF k = n + 1 THEN NaN ELSE IF ~isnull(s[k]) THEN s[k] ELSE B[k + 1]
  IN [k \in 1..n |-> B[k]]

\* the fill without its second pass: df.fillna(method='ffill')
fillna_ffill_only(df) ==
  LET f == [col \in ColSet(df) |-> ffill_series(Series(df, col))]
  IN WithSeries(df, f)

\* df.fillna(method='ffill').fillna(method='bfill')
fillna(df) ==
  LET f == [col \in ColSet(df) |-> bfill_series(ffill_series(Series(df, col)))]
  IN WithSeries(df, f)

\* pd.to_datetime(value, errors='coerce')
to_datetime_cell(c) ==
  CASE c.t = "date" -> c
    [] c.t = "str_date" -> Date(c.v)
    [] c.t = "num" -> Date(c.v)
    [] OTHER -> NaN

\* for col in date_cols: df[col] = pd.to_datetime(df[col], errors='coerce')
to_datetime(df) ==
  LET f == [col \in ColSet(df) |->
              IF IsDateCol(col)
              THEN [k \in 1..Len(df.rows) |-> to_datetime_cell(df.rows[k].c[col])]
              ELSE Series(df, col)]
      conv == WithSeries(df, f)
  IN [conv EXCEPT !.dtypes = [col \in ColSet(df) |->
        IF IsDateCol(col) THEN "datetime" ELSE df.dtypes[col]]]

\* df.drop_duplicates(): the first occurrence of each row is kept, with its
\* index label; missing values compare equal
drop_duplicates(df) ==
  LET r == df.rows
      D[k \in 0..Len(r)] ==
        IF k = 0 THEN <<>>
        ELSE IF \E j \in 1..(k - 1) : r[j].c = r[k].c THEN D[k - 1]
        ELSE Append(D[k - 1], r[k])
  IN [df EXCEPT !.rows = D[Len(r)]]

\* pd.to_numeric(value, errors='coerce')
to_numeric_cell(c) ==
  CASE c.t = "num" -> c
    [] c.t = "str_num" -> Num(c.v)
    [] OTHER -> NaN

\* df.select_dtypes(include=['object']).columns
select_dtypes_object(df) == {col \in ColSet(df) : df.dtypes[col] = "object"}

\* for col in numeric_cols: df[col] = pd.to_numeric(df[col], errors='coerce')
to_numeric(df) ==
  LET obj == select_dtypes_object(df)
      f == [col \in ColSet(df) |->
              IF col \in obj
              THEN [k \in 1..Len(df.rows) |-> to_numeric_cell(df.rows[k].c[col])]
              ELSE Series(df, col)]
      conv == WithSeries(df, f)
  IN [conv EXCEPT !.dtypes = [col \in ColSet(df) |->
        IF col \in obj THEN "number" ELSE df.dtypes[col]]]

(***************************************************************************)
(* The cleaners                                                            *)
(***************************************************************************)
\* the dataset clean_enrolment_data stores and returns
cleaned_enrolment(df) == to_numeric(drop_duplicates(to_datetime(fillna(df))))

\* the dataset clean_demographic_data stores and returns
cleaned_demographic(df) == drop_duplicates(to_datetime(fillna(df)))

\* the dataset clean_biometric_data stores and returns
cleaned_biometric(df) == drop_duplicates(to_datetime(fillna(df)))

clean_enrolment_data ==
  /\ op' = "clean_enrolment_data"
  /\ IF IsNone(enrolment_df)
     THEN /\ err' = "ValueError: Enrolment data not loaded"
          /\ ret' = None
          /\ UNCHANGED enrolment_df
     ELSE /\ enrolment_df' = cleaned_enrolment(enrolment_df)
          /\ ret' = enrolment_df'
          /\ err' = "none"
  /\ arg' = enrolment_df
  /\ UNCHANGED <<demographic_df, biometric_df>>
  /\ UNCHANGED <<read, ml>>

clean_demographic_data ==
  /\ op' = "clean_demographic_data"
  /\ IF IsNone(demographic_df)
     THEN /\ err' = "ValueError: Demographic data not loaded"
          /\ ret' = None
          /\ UNCHANGED demographic_df
     ELSE /\ demographic_df' = cleaned_demographic(demographic_df)
          /\ ret' = demographic_df'
          /\ err' = "none"
  /\ arg' = demographic_df
  /\ UNCHANGED <<enrolment_df, biometric_df>>
  /\ UNCHANGED <<read, ml>>

clean_biometric_data ==
  /\ op' = "clean_biometric_data"
  /\ IF IsNone(biometric_df)
     THEN /\ err' = "ValueError: Biometric data not loaded"
          /\ ret' = None
          /\ UNCHANGED biometric_df
     ELSE /\ biometric_df' = cleaned_biometric(biometric_df)
          /\ ret' = biometric_df'
          /\ err' = "none"
  /\ arg' = biometric_df
  /\ UNCHANGED <<enrolment_df, demographic_df>>
  /\ UNCHANGED <<read, ml>>

(***************************************************************************)
(* Input files of the cleaner specification                                *)
(***************************************************************************)
\* State "A", District "X", Pin Code 1, Aadhaar Generated 100, 200, "100",
\* one of two texts that are not numbers, or missing, Date a date or a text
\* that is not one
CleanColumns == <<"State", "District", "Pin Code", "Aadhaar Generated", "Date">>

CleanRows ==
  { ("State" :> s) @@ ("District" :> StrOther(2)) @@ ("Pin Code" :> Num(1))
      @@ ("Aadhaar Generated" :> a) @@ ("Date" :> m) :
    s \in {StrOther(1)},
    a \in {Num(100), Num(200), StrNum(100), StrOther(3), StrOther(6), NaN},
    m \in {StrDate(1), StrOther(4)} }

CleanFiles ==
  { df \in { read_csv(cr, CleanColumns) :
               cr \in UNION {[1..n -> CleanRows] : n \in 0..MaxRows} } : IsCSV(df) }

(***************************************************************************)
(* SpecClean: one dataset has been loaded, the cleaners are called in any  *)
(* order, any number of times                                              *)
(***************************************************************************)
InitClean ==
  /\ \/ \E df \in CleanFiles :
            /\ demographic_df = df /\ biometric_df = None /\ enrolment_df = None
            /\ read = {"demographic"}
     \/ \E df \in CleanFiles :
            /\ biometric_df = df /\ demographic_df = None /\ enrolment_df = None
            /\ read = {"biometric"}
     \/ \E df \in CleanFiles :
            /\ enrolment_df = df /\ demographic_df = None /\ biometric_df = None
            /\ read = {"enrolment"}
  /\ NoModels
  /\ op = "load_datasets"
  /\ ret = None
  /\ err = "none"
  /\ arg = None

NextClean ==
  \/ clean_enrolment_data
  \/ clean_demographic_data
  \/ clean_biometric_data

SpecClean == InitClean /\ [][NextClean]_vars

(***************************************************************************)
(* Properties of the cleaners                                              *)
(***************************************************************************)
CleanOps == {"clean_enrolment_data", "clean_demographic_data", "clean_biometric_data"}

\* the last call was a cleaner and it returned: arg is the dataset it was
\* called on, ret the dataset it stored and returned
Cleaned == op \in CleanOps /\ err = "none"

Stored(o) ==
  CASE o = "clean_enrolment_data" -> enrolment_df
    [] o = "clean_demographic_data" -> demographic_df
    [] o = "clean_biometric_data" -> biometric_df
    [] OTHER -> None

Max(S) == CHOOSE x \in S : \A y \in S : y <= x
Min(S) == CHOOSE x \in S : \A y \in S : x <= y

\* position in df of the row with index label i
PosOf(df, i) == CHOOSE k \in 1..Len(df.rows) : df.rows[k].i = i

\* the value at position k of series s if it is present, else the nearest
\* earlier present value, else the nearest later one, else missing
NearestFill(s, k) ==
  LET before == {j \in 1..k : ~isnull(s[j])}
      after == {j \in k..Len(s) : ~isnull(s[j])}
  IN IF before # {} THEN s[Max(before)]
     ELSE IF after # {} THEN s[Min(after)]
     ELSE NaN

ParsesAsDate(c) == c.t \in {"str_date", "num", "date"}
ParsesAsNumber(c) == c.t \in {"str_num", "num"}

NoDuplicateRows(df) ==
  \A j, k \in 1..Len(df.rows) : j # k => df.rows[j].c # df.rows[k].c

\* C1: calling a cleaner a second time immediately after the first leaves
\* the stored dataset (and the returned one) identical to the result of the
\* first call.
C1_CleanerIdempotent ==
  [][(Cleaned /\ op' = op) => (ret' = ret /\ UNCHANGED dfs)]_vars

\* C2: after a cleaner returns, the stored and returned dataset has no two
\* rows that are equal in every column.
C2_NoDuplicateRows ==
  Cleaned => (ret = Stored(op) /\ NoDuplicateRows(ret))

\* C3: after a cleaner returns, State, District and Pin Code are non-null in
\* every row of the cleaned dataset.
C3_GeographicKeyNotNull ==
  Cleaned => \A k \in 1..Len(ret.rows) : \A col \in {"State", "District", "Pin Code"} :
               ~isnull(ret.rows[k].c[col])

\* C4: clean_enrolment_data converts a text-typed column to numeric only if
\* every non-null value in it parses as a number; otherwise the column is
\* left as text and none of its values is replaced by null.
C4_CoerceOnlyIfAllParse ==
  (op = "clean_enrolment_data" /\ err = "none") =>
    \A col \in {c \in ColSet(arg) : arg.dtypes[c] = "object" /\ ~IsDateCol(c)} :
      LET s == Series(arg, col)
          allparse == \A j \in 1..Len(s) : isnull(s[j]) \/ ParsesAsNumber(s[j])
      IN /\ ret.dtypes[col] = "number" <=> allparse
         /\ ~allparse =>
              \A k \in 1..Len(ret.rows) :
                /\ ~isnull(ret.rows[k].c[col])
                /\ ret.rows[k].c[col] \in Range(s)

migration_risk_no_min(df) ==
  LET update_rate == series_fillna(Series(df, "Update_Rate"), Num(0))
      mn == series_min(update_rate)
      mx == series_max(update_rate)
      risk_score == [k \in DOMAIN update_rate |->
          FMul(FDiv(update_rate[k], FAdd(FSub(mx, mn), Eps)), Num(100))]
  IN series_fillna(risk_score, Num(50))

\* the Series _calculate_migration_risk(df) returns
_calculate_migration_risk(df) ==
  LET update_rate == series_fillna(Series(df, "Update_Rate"), Num(0))
      mn == series_min(update_rate)
      mx == series_max(update_rate)
      risk_score == [k \in DOMAIN update_rate |->
          FMul(FDiv(FSub(update_rate[k], mn), FAdd(FSub(mx, mn), Eps)), Num(100))]
  IN series_fillna(risk_score, Num(50))

\* a DataFrame with the index of df and the one column col holding series s
to_frame(df, col, s) ==
  [loaded |-> TRUE,
   columns |-> <<col>>,
   dtypes |-> (col :> "number"),
   rows |-> [k \in 1..Len(df.rows) |-> [i |-> df.rows[k].i, c |-> (col :> s[k])]]]

\* a call of _calculate_migration_risk on the batch arg
call_calculate_migration_risk ==
  /\ op = "batch"
  /\ op' = "_calculate_migration_risk"
  /\ ret' = to_frame(arg, "Migration_Risk", _calculate_migration_risk(arg))
  /\ err' = "none"
  /\ UNCHANGED <<dfs, arg>>
  /\ UNCHANGED <<read, ml>>

(***************************************************************************)
(* Merge and migration indicators                                          *)
(***************************************************************************)
\* pd.DataFrame()
EmptyFrame == [loaded |-> TRUE, columns |-> <<>>, dtypes |-> <<>>, rows |-> <<>>]

RECURSIVE Flatten(_)
Flatten(ss) == IF ss = <<>> THEN <<>> ELSE Head(ss) \o Flatten(Tail(ss))

\* the exception pd.merge(left, right, on=on) raises, "none" when it returns:
\* a key column is missing, or a key is text on one side and numeric on the
\* other
merge_error(left, right, on) ==
  IF \E k \in on : k \notin ColSet(left) \/ k \notin ColSet(right) THEN "KeyError"
  ELSE IF /\ Len(left.rows) > 0
          /\ Len(right.rows) > 0
          /\ \E k \in on : {left.dtypes[k], right.dtypes[k]} = {"object", "number"}
  THEN "ValueError: You are trying to merge on object and float64 columns"
  ELSE "none"

\* pd.merge(left, right, on=on, how='left', suffixes=(sl, sr)): the rows of
\* left in order, each once per matching row of right (missing keys match
\* missing keys), or once with missing right columns when none matches; a
\* column the two sides share outside the keys takes the side's suffix
merge_left(left, right, on, sl, sr) ==
  LET overlap == (ColSet(left) \cap ColSet(right)) \ on
      lname(c) == IF c \in overlap THEN c \o sl ELSE c
      rname(c) == IF c \in overlap THEN c \o sr ELSE c
      rcols == SelectSeq(right.columns, LAMBDA c : c \notin on)
      lnames == {lname(c) : c \in ColSet(left)}
      rnames == {rname(c) : c \in Range(rcols)}
      lcells(lr) == [n \in lnames |-> lr.c[CHOOSE c \in ColSet(left) : lname(c) = n]]
      rcells(rr) == [n \in rnames |-> rr.c[CHOOSE c \in Range(rcols) : rname(c) = n]]
      nocells == [n \in rnames |-> NaN]
      rowsfor(lr) ==
        LET m == SelectSeq(right.rows, LAMBDA rr : \A k \in on : rr.c[k] = lr.c[k])
        IN IF m = <<>> THEN <<lcells(lr) @@ nocells>>
           ELSE [j \in 1..Len(m) |-> lcells(lr) @@ rcells(m[j])]
      cellrows == Flatten([k \in 1..Len(left.rows) |-> rowsfor(left.rows[k])])
  IN [loaded |-> TRUE,
      columns |-> [k \in 1..Len(left.columns) |-> lname(left.columns[k])]
                  \o [k \in 1..Len(rcols) |-> rname(rcols[k])],
      dtypes |-> [n \in lnames |-> left.dtypes[CHOOSE c \in ColSet(left) : lname(c) = n]]
                 @@ [n \in rnames |-> right.dtypes[CHOOSE c \in Range(rcols) : rname(c) = n]],
      rows |-> [k \in 1..Len(cellrows) |-> [i |-> k - 1, c |-> cellrows[k]]]]

\* on=['State', 'District', 'Pin Code']
KeyColumns == <<"State", "District", "Pin Code">>

MigrationColumns ==
  <<"State", "District", "Enrolment", "Updates", "Update_Rate", "Migration_Risk">>

\* the merge of calculate_migration_indicators
migration_merged(enrol, demo) ==
  merge_left(enrol, demo, Range(KeyColumns), "_enrol", "_demo")

\* the exception calculate_migration_indicators raises on two loaded
\* datasets, "none" when it returns
migration_error(enrol, demo) ==
  LET merr == merge_error(enrol, demo, Range(KeyColumns))
      merged == migration_merged(enrol, demo)
  IN IF merr # "none" THEN merr
     ELSE IF /\ "Aadhaar Generated_enrol" \in ColSet(merged)
             /\ "Update_count" \in ColSet(merged)
             /\ Len(merged.rows) > 0
             /\ "object" \in {merged.dtypes["Aadhaar Generated_enrol"],
                              merged.dtypes["Update_count"]}
     THEN "TypeError"
     ELSE "none"

\* the DataFrame calculate_migration_indicators returns
migration_indicators(enrol, demo) ==
  LET merged == migration_merged(enrol, demo)
  IN IF "Aadhaar Generated_enrol" \in ColSet(merged) /\ "Update_count" \in ColSet(merged)
     THEN LET n == Len(merged.rows)
              Enrolment == Series(merged, "Aadhaar Generated_enrol")
              Updates == Series(merged, "Update_count")
              Update_Rate == [k \in 1..n |->
                  FMul(FDiv(Updates[k], FAdd(Enrolment[k], Num(1))), Num(100))]
              Migration_Risk ==
                  _calculate_migration_risk(to_frame(merged, "Update_Rate", Update_Rate))
          IN [loaded |-> TRUE,
              columns |-> MigrationColumns,
              dtypes |-> ("State" :> merged.dtypes["State"])
                         @@ ("District" :> merged.dtypes["District"])
                         @@ [col \in {"Enrolment", "Updates", "Update_Rate", "Migration_Risk"}
                               |-> "number"],
              rows |-> [k \in 1..n |->
                  [i |-> merged.rows[k].i,
                   c |-> ("State" :> merged.rows[k].c["State"])
                         @@ ("District" :> merged.rows[k].c["District"])
                         @@ ("Enrolment" :> Enrolment[k])
                         @@ ("Updates" :> Updates[k])
                         @@ ("Update_Rate" :> Update_Rate[k])
                         @@ ("Migration_Risk" :> Migration_Risk[k])]]]
     ELSE EmptyFrame

\* the guard written with 'and': the calculation goes on when one of the
\* two datasets is missing, and pd.merge raises on it
calculate_migration_indicators_and ==
  /\ op' = "calculate_migration_indicators"
  /\ IF IsNone(enrolment_df) /\ IsNone(demographic_df)
     THEN /\ err' = "ValueError: Required datasets not loaded"
          /\ ret' = None
     ELSE IF IsNone(enrolment_df) \/ IsNone(demographic_df)
     THEN /\ err' = "TypeError"
          /\ ret' = None
     ELSE /\ err' = migration_error(enrolment_df, demographic_df)
          /\ ret' = IF err' = "none"
                    THEN migration_indicators(enrolment_df, demographic_df)
                    ELSE None
  /\ arg' = None
  /\ UNCHANGED dfs
  /\ UNCHANGED <<read, ml>>

calculate_migration_indicators ==
  /\ op' = "calculate_migration_indicators"
  /\ IF IsNone(enrolment_df) \/ IsNone(demographic_df)
     THEN /\ err' = "ValueError: Required datasets not loaded"
          /\ ret' = None
     ELSE /\ err' = migration_error(enrolment_df, demographic_df)
          /\ ret' = IF err' = "none"
                    THEN migration_indicators(enrolment_df, demographic_df)
                    ELSE None
  /\ arg' = None
  /\ UNCHANGED dfs
  /\ UNCHANGED <<read, ml>>

(***************************************************************************)
(* Biometric quality                                                       *)
(***************************************************************************)
\* the order groupby sorts its keys in: numbers by value, texts by their
\* identifying number
KeyLess(a, b) == IF a.t = "num" /\ b.t = "num" THEN FLess(a, b) ELSE a.v < b.v

RECURSIVE SortKeys(_)
SortKeys(S) ==
  IF S = {} THEN <<>>
  ELSE LET m == CHOOSE x \in S : \A y \in S \ {x} : KeyLess(x, y)
       IN <<m>> \o SortKeys(S \ {m})

\* the sum of the present values of series s at the positions in idx
group_sum(s, idx) ==
  LET F[k \in 0..Len(s)] ==
        IF k = 0 THEN Num(0)
        ELSE IF k \in idx /\ ~isnull(s[k]) THEN FAdd(F[k - 1], s[k]) ELSE F[k - 1]
  IN F[Len(s)]

\* the number of present values of series s at the positions in idx
group_count(s, idx) == Cardinality({k \in idx : ~isnull(s[k])})

\* the mean of the present values of series s at the positions in idx
group_mean(s, idx) ==
  IF group_count(s, idx) = 0 THEN NaN
  ELSE FDiv(group_sum(s, idx), Num(group_count(s, idx)))

BiometricHealthColumns ==
  <<"State", "Total_Updates", "Avg_Updates", "Individuals_Updated", "Biometric_Coverage">>

\* the exception calculate_biometric_quality raises on a loaded dataset,
\* "none" when it returns
biometric_error(df) ==
  IF "State" \notin ColSet(df) THEN "none"
  ELSE IF "Update_Count" \notin ColSet(df) \/ "Age_Group" \notin ColSet(df) THEN "KeyError"
  ELSE IF Len(df.rows) > 0 /\ df.dtypes["Update_Count"] = "object" THEN "TypeError"
  ELSE "none"

\* the coverage without the 1e-6 in its denominator:
\* Total_Updates / Individuals_Updated * 100
biometric_health_no_eps(df) ==
  IF "State" \in ColSet(df)
  THEN LET State == Series(df, "State")
           keys == SortKeys({State[k] : k \in {j \in DOMAIN State : ~isnull(State[j])}})
           idx(g) == {k \in DOMAIN State : State[k] = g}
           Total_Updates(g) == group_sum(Series(df, "Update_Count"), idx(g))
           Individuals_Updated(g) == Num(group_count(Series(df, "Age_Group"), idx(g)))
       IN [loaded |-> TRUE,
           columns |-> BiometricHealthColumns,
           dtypes |-> ("State" :> df.dtypes["State"])
                      @@ [col \in Range(BiometricHealthColumns) \ {"State"} |-> "number"],
           rows |-> [k \in 1..Len(keys) |->
               [i |-> k - 1,
                c |-> ("State" :> keys[k])
                      @@ ("Total_Updates" :> Total_Updates(keys[k]))
                      @@ ("Avg_Updates" :> group_mean(Series(df, "Update_Count"), idx(keys[k])))
                      @@ ("Individuals_Updated" :> Individuals_Updated(keys[k]))
                      @@ ("Biometric_Coverage" :>
                            FMul(FDiv(Total_Updates(keys[k]),
                                      Individuals_Updated(keys[k])),
                                 Num(100)))]]]
  ELSE EmptyFrame

\* the DataFrame calculate_biometric_quality returns
biometric_health(df) ==
  IF "State" \in ColSet(df)
  THEN LET State == Series(df, "State")
           keys == SortKeys({State[k] : k \in {j \in DOMAIN State : ~isnull(State[j])}})
           idx(g) == {k \in DOMAIN State : State[k] = g}
           Total_Updates(g) == group_sum(Series(df, "Update_Count"), idx(g))
           Individuals_Updated(g) == Num(group_count(Series(df, "Age_Group"), idx(g)))
       IN [loaded |-> TRUE,
           columns |-> BiometricHealthColumns,
           dtypes |-> ("State" :> df.dtypes["State"])
                      @@ [col \in Range(BiometricHealthColumns) \ {"State"} |-> "number"],
           rows |-> [k \in 1..Len(keys) |->
               [i |-> k - 1,
                c |-> ("State" :> keys[k])
                      @@ ("Total_Updates" :> Total_Updates(keys[k]))
                      @@ ("Avg_Updates" :> group_mean(Series(df, "Update_Count"), idx(keys[k])))
                      @@ ("Individuals_Updated" :> Individuals_Updated(keys[k]))
                      @@ ("Biometric_Coverage" :>
                            FMul(FDiv(Total_Updates(keys[k]),
                                      FAdd(Individuals_Updated(keys[k]), Eps)),
                                 Num(100)))]]]
  ELSE EmptyFrame

\* the calculation working on the stored dataset instead of a copy: the
\* result replaces self.biometric_df
calculate_biometric_quality_in_place ==
  /\ op' = "calculate_biometric_quality"
  /\ IF IsNone(biometric_df)
     THEN /\ err' = "ValueError: Biometric data not loaded"
          /\ ret' = None
     ELSE /\ err' = biometric_error(biometric_df)
          /\ ret' = IF err' = "none" THEN biometric_health(biometric_df) ELSE None
  /\ biometric_df' = IF IsNone(biometric_df) \/ err' # "none" THEN biometric_df ELSE ret'
  /\ arg' = None
  /\ UNCHANGED <<enrolment_df, demographic_df, read, ml>>

calculate_biometric_quality ==
  /\ op' = "calculate_biometric_quality"
  /\ IF IsNone(biometric_df)
     THEN /\ err' = "ValueError: Biometric data not loaded"
          /\ ret' = None
     ELSE /\ err' = biometric_error(biometric_df)
          /\ ret' = IF err' = "none" THEN biometric_health(biometric_df) ELSE None
  /\ arg' = None
  /\ UNCHANGED dfs
  /\ UNCHANGED <<read, ml>>

(***************************************************************************)
(* The loader                                                              *)
(***************************************************************************)
\* a path argument: not given, naming a file that cannot be read, or naming
\* a file with the given content
NoPath == [p |-> "absent", content |-> None]
BadPath == [p |-> "unreadable", content |-> None]
Paths(files) == {NoPath, BadPath} \cup {[p |-> "file", content |-> df] : df \in files}

RowE(s, a) ==
  ("State" :> s) @@ ("District" :> StrOther(2)) @@ ("Pin Code" :> Num(1))
    @@ ("Aadhaar Generated" :> a)
RowD(s, u) ==
  ("State" :> s) @@ ("District" :> StrOther(2)) @@ ("Pin Code" :> Num(1))
    @@ ("Aadhaar Generated" :> Num(5)) @@ ("Update_count" :> u)
RowS(s, u) ==
  ("State" :> s) @@ ("District" :> StrOther(2)) @@ ("Pin Code" :> Num(1))
    @@ ("Update_Count" :> u)
RowB(s, u, g) == ("State" :> s) @@ ("Update_Count" :> u) @@ ("Age_Group" :> g)

\* the files of the pipeline specification: State "A" is StrOther(1), "B" is
\* StrOther(5), Age_Group "Child (0-5)" is StrOther(7), "Adult (26-40)" is
\* StrOther(8)
EnrolmentFiles ==
  { read_csv(<<RowE(StrOther(1), Num(9))>>, KeyColumns \o <<"Aadhaar Generated">>),
    read_csv(<<RowE(StrOther(1), NaN), RowE(StrOther(5), Num(99)), RowE(StrOther(5), Num(99))>>,
             KeyColumns \o <<"Aadhaar Generated">>) }

\* one demographic file with the columns the migration calculation looks
\* for, one with the columns of the documented schema
DemographicFiles ==
  { read_csv(<<RowD(StrOther(1), Num(1)), RowD(StrOther(1), Num(2))>>,
             KeyColumns \o <<"Aadhaar Generated", "Update_count">>),
    read_csv(<<RowS(StrOther(5), Num(1))>>, KeyColumns \o <<"Update_Count">>) }

BiometricFiles ==
  { read_csv(<<RowB(StrOther(1), Num(50), NaN)>>, <<"State", "Update_Count", "Age_Group">>),
    read_csv(<<RowB(StrOther(5), Num(5), StrOther(7)), RowB(StrOther(1), NaN, StrOther(8)),
               RowB(StrOther(5), Num(10), StrOther(7))>>,
             <<"State", "Update_Count", "Age_Group">>) }

\* a loader that assigns every dataset anew: a dataset whose path is omitted
\* becomes None again
load_datasets_resets ==
  \E ep \in Paths(EnrolmentFiles), dp \in Paths(DemographicFiles), bp \in Paths(BiometricFiles) :
    LET d_reached == ep.p # "unreadable"
        b_reached == d_reached /\ dp.p # "unreadable"
        raised == ~b_reached \/ bp.p = "unreadable"
    IN /\ op' = "load_datasets"
       /\ enrolment_df' = IF ep.p = "file" THEN ep.content ELSE None
       /\ demographic_df' = IF d_reached /\ dp.p = "file" THEN dp.content ELSE None
       /\ biometric_df' = IF b_reached /\ bp.p = "file" THEN bp.content ELSE None
       /\ err' = IF raised THEN "FileNotFoundError" ELSE "none"
       /\ ret' = IF raised THEN None
                 ELSE [enrolment |-> enrolment_df', demographic |-> demographic_df',
                       biometric |-> biometric_df']
       /\ arg' = None
       /\ read' = read \cup (IF ep.p = "file" THEN {"enrolment"} ELSE {})
                      \cup (IF d_reached /\ dp.p = "file" THEN {"demographic"} ELSE {})
                      \cup (IF b_reached /\ bp.p = "file" THEN {"biometric"} ELSE {})
       /\ UNCHANGED ml

\* load_datasets(enrolment_path, demographic_path, biometric_path): the
\* files are read in this order, a file that cannot be read raises and the
\* datasets read before it stay stored
load_datasets ==
  \E ep \in Paths(EnrolmentFiles), dp \in Paths(DemographicFiles), bp \in Paths(BiometricFiles) :
    LET d_reached == ep.p # "unreadable"
        b_reached == d_reached /\ dp.p # "unreadable"
        raised == ~b_reached \/ bp.p = "unreadable"
    IN /\ op' = "load_datasets"
       /\ enrolment_df' = IF ep.p = "file" THEN ep.content ELSE enrolment_df
       /\ demographic_df' = IF d_reached /\ dp.p = "file" THEN dp.content ELSE demographic_df
       /\ biometric_df' = IF b_reached /\ bp.p = "file" THEN bp.content ELSE biometric_df
       /\ err' = IF raised THEN "FileNotFoundError" ELSE "none"
       /\ ret' = IF raised THEN None
                 ELSE [enrolment |-> enrolment_df', demographic |-> demographic_df',
                       biometric |-> biometric_df']
       /\ arg' = None
       /\ read' = read \cup (IF ep.p = "file" THEN {"enrolment"} ELSE {})
                      \cup (IF d_reached /\ dp.p = "file" THEN {"demographic"} ELSE {})
                      \cup (IF b_reached /\ bp.p = "file" THEN {"biometric"} ELSE {})
       /\ UNCHANGED ml

(***************************************************************************)
(* The pipeline object after its construction; Spec, with its operations  *)
(* called in any order, follows the last of them below                     *)
(***************************************************************************)
Init ==
  /\ enrolment_df = None
  /\ demographic_df = None
  /\ biometric_df = None
  /\ op = "__init__"
  /\ ret = None
  /\ err = "none"
  /\ arg = None
  /\ read = {}
  /\ NoModels

NotLoadedErrors ==
  {"ValueError: Enrolment data not loaded", "ValueError: Demographic data not loaded",
   "ValueError: Biometric data not loaded", "ValueError: Required datasets not loaded"}

\* the datasets operation o requires
Required(o) ==
  CASE o = "clean_enrolment_data" -> <<enrolment_df>>
    [] o = "clean_demographic_data" -> <<demographic_df>>
    [] o = "clean_biometric_data" -> <<biometric_df>>
    [] o = "calculate_biometric_quality" -> <<biometric_df>>
    [] o = "calculate_migration_indicators" -> <<enrolment_df, demographic_df>>
    [] OTHER -> <<>>

\* C6: a cleaner or calculate_biometric_quality called on a dataset that is
\* not loaded, and calculate_migration_indicators called when the enrolment
\* or the demographic dataset is not loaded, raise the dataset-not-loaded
\* error, return nothing and leave the three stored datasets unchanged.
C6_NotLoadedRaises ==
  [][(\E k \in DOMAIN Required(op') : IsNone(Required(op')[k]))
       => (err' \in NotLoadedErrors /\ ret' = None /\ UNCHANGED dfs)]_vars

\* an operation has raised the dataset-not-loaded error while another
\* dataset was loaded
C6_Witness ==
  /\ err \in NotLoadedErrors
  /\ op = "calculate_migration_indicators"
  /\ ~IsNone(enrolment_df)
  /\ IsNone(demographic_df)
  /\ ret = None

(***************************************************************************)
(* SpecRisk: _calculate_migration_risk applied to a batch of rows          *)
(***************************************************************************)
MaxBatch == 3

\* the Update_Rate values of the batches: missing, infinite, negative, zero
\* and positive rates
RiskRates == {NaN, Inf, NInf, Num(-10), Num(0), Num(10), Frac(25, 0, 2, 0)}

RiskBatches ==
  { read_csv(cr, <<"Update_Rate">>) :
      cr \in UNION {[1..n -> {("Update_Rate" :> u) : u \in RiskRates}] : n \in 0..MaxBatch} }

InitRisk ==
  /\ enrolment_df = None
  /\ demographic_df = None
  /\ biometric_df = None
  /\ op = "batch"
  /\ ret = None
  /\ err = "none"
  /\ arg \in RiskBatches
  /\ read = {}
  /\ NoModels

NextRisk == call_calculate_migration_risk

SpecRisk == InitRisk /\ [][NextRisk]_vars

\* the last call was _calculate_migration_risk: arg is its batch, ret holds
\* the Migration_Risk it returned
RiskDone == op = "_calculate_migration_risk"

\* C7: when every row of the batch has the same Update_Rate (max == min,
\* including a single-row batch), every row's Migration_Risk is exactly 50.
C7_ZeroVarianceIsFifty ==
  (/\ RiskDone
   /\ Len(arg.rows) > 0
   /\ \A k \in 1..Len(arg.rows) :
        /\ arg.rows[k].c["Update_Rate"].t = "num"
        /\ arg.rows[k].c["Update_Rate"] = arg.rows[1].c["Update_Rate"])
  => \A k \in 1..Len(ret.rows) : ret.rows[k].c["Migration_Risk"] = Num(50)

\* C8: for every batch, every Migration_Risk is non-null and lies in the
\* closed interval [0, 100].
C8_RiskInRange ==
  RiskDone =>
    \A k \in 1..Len(ret.rows) :
      LET r == ret.rows[k].c["Migration_Risk"]
      IN /\ r.t = "num"
         /\ FLeq(Num(0), r)
         /\ FLeq(r, Num(100))

\* a batch with a missing rate and two distinct finite rates has been scored
C8_Witness ==
  /\ RiskDone
  /\ Len(ret.rows) = Len(arg.rows)
  /\ \E i, j, k \in 1..Len(arg.rows) :
       /\ arg.rows[i].c["Update_Rate"].t = "NaN"
       /\ arg.rows[j].c["Update_Rate"].t = "num"
       /\ arg.rows[k].c["Update_Rate"].t = "num"
       /\ FLess(arg.rows[j].c["Update_Rate"], arg.rows[k].c["Update_Rate"])
       /\ FLess(Num(0), ret.rows[k].c["Migration_Risk"])

(***************************************************************************)
(* SpecMig: calculate_migration_indicators on a loaded enrolment and a     *)
(* loaded demographic dataset                                              *)
(***************************************************************************)
MaxMigRows == 2

\* enrolment files: State "A" or "B", District "X", Pin Code 1, Aadhaar
\* Generated 0, 9 or 99
MigEnrolmentFiles ==
  { read_csv(cr, KeyColumns \o <<"Aadhaar Generated">>) :
      cr \in UNION {[1..n ->
        { ("State" :> s) @@ ("District" :> StrOther(2)) @@ ("Pin Code" :> Num(1))
            @@ ("Aadhaar Generated" :> a) :
          s \in {StrOther(1), StrOther(5)}, a \in {Num(9), Num(99), Num(0)} }] : n \in 0..MaxMigRows} }

\* demographic files that carry the columns the calculation looks for
\* ('Aadhaar Generated' and 'Update_count'), Update_count 0, 1 or 2
MigDemographicFiles ==
  { read_csv(cr, KeyColumns \o <<"Aadhaar Generated", "Update_count">>) :
      cr \in UNION {[1..n ->
        { ("State" :> s) @@ ("District" :> StrOther(2)) @@ ("Pin Code" :> Num(1))
            @@ ("Aadhaar Generated" :> Num(5)) @@ ("Update_count" :> u) :
          s \in {StrOther(1), StrOther(5)}, u \in {Num(0), Num(1), Num(2)} }] : n \in 0..MaxMigRows} }

InitMig ==
  /\ enrolment_df \in MigEnrolmentFiles
  /\ demographic_df \in MigDemographicFiles
  /\ biometric_df = None
  /\ op = "load_datasets"
  /\ ret = None
  /\ err = "none"
  /\ arg = None
  /\ read = {"enrolment", "demographic"}
  /\ NoModels

NextMig == calculate_migration_indicators

SpecMig == InitMig /\ [][NextMig]_vars

\* the last call was calculate_migration_indicators and it returned ret
MigrationDone == op = "calculate_migration_indicators" /\ err = "none"

\* the demographic rows with the geographic key of enrolment row k
Matches(k) ==
  {j \in 1..Len(demographic_df.rows) :
     \A col \in Range(KeyColumns) :
       demographic_df.rows[j].c[col] = enrolment_df.rows[k].c[col]}

\* the position of the first migration row of enrolment row k in a left join
RECURSIVE MigPos(_)
MigPos(k) ==
  IF k = 1 THEN 1
  ELSE MigPos(k - 1) + (IF Matches(k - 1) = {} THEN 1 ELSE Cardinality(Matches(k - 1)))

\* C9: an enrolment row with no matching demographic row has a migration
\* row, whose Update_Rate is 0 (the missing update count treated as 0), not
\* null.
C9_UnmatchedRowRateZero ==
  MigrationDone =>
    \A k \in 1..Len(enrolment_df.rows) :
      Matches(k) = {} =>
        /\ MigPos(k) <= Len(ret.rows)
        /\ ret.rows[MigPos(k)].c["State"] = enrolment_df.rows[k].c["State"]
        /\ ret.rows[MigPos(k)].c["Update_Rate"] = Num(0)

\* C10: every row returned by calculate_migration_indicators satisfies
\* Update_Rate = Updates / (Enrolment + 1) * 100, with Update_Rate finite
\* (never null) and non-negative.
C10_UpdateRateFinite ==
  MigrationDone =>
    \A k \in 1..Len(ret.rows) :
      LET r == ret.rows[k].c
      IN /\ r["Update_Rate"].t = "num"
         /\ FLeq(Num(0), r["Update_Rate"])
         /\ FMul(r["Update_Rate"], FAdd(r["Enrolment"], Num(1))) = FMul(r["Updates"], Num(100))

(***************************************************************************)
(* Vulnerability score (src/lib/ml_models.py, VulnerabilityAnalyzer)       *)
(***************************************************************************)
\* vulnerability_map.get(age_group, 0.5): "Child (0-5)" is StrOther(7),
\* "Adult (26-40)" StrOther(8), "Child (6-17)" StrOther(9), "Youth (18-25)"
\* StrOther(10), "Senior (41-60)" StrOther(11), "Elderly (60+)" StrOther(12)
_age_vulnerability_score(age_group) ==
  IF age_group = StrOther(7) THEN Num(1)
  ELSE IF age_group = StrOther(9) THEN Frac(9, 0, 10, 0)
  ELSE IF age_group = StrOther(10) THEN Frac(3, 0, 10, 0)
  ELSE IF age_group = StrOther(8) THEN Frac(1, 0, 5, 0)
  ELSE IF age_group = StrOther(11) THEN Frac(3, 0, 10, 0)
  ELSE IF age_group = StrOther(12) THEN Frac(4, 0, 5, 0)
  ELSE Frac(1, 0, 2, 0)

\* df['Age_Group'].apply(self._age_vulnerability_score)
age_vuln(s) == [k \in DOMAIN s |-> _age_vulnerability_score(s[k])]

\* (enrolment.max() - enrolment) / (enrolment.max() - enrolment.min() + 1e-6),
\* missing quotients replaced by 0.5
_geographic_vulnerability(enrolment) ==
  LET mx == series_max(enrolment)
      mn == series_min(enrolment)
      normalized == [k \in DOMAIN enrolment |->
          FDiv(FSub(mx, enrolment[k]), FAdd(FSub(mx, mn), Eps))]
  IN series_fillna(normalized, Frac(1, 0, 2, 0))

\* 1 - (biometric_updates / (biometric_updates.max() + 1e-6)), missing
\* values replaced by 0.5
_biometric_vulnerability(biometric_updates) ==
  LET mx == series_max(biometric_updates)
      normalized == [k \in DOMAIN biometric_updates |->
          FSub(Num(1), FDiv(biometric_updates[k], FAdd(mx, Eps)))]
  IN series_fillna(normalized, Frac(1, 0, 2, 0))

\* demographic_updates / (demographic_updates.max() + 1e-6), missing values
\* replaced by 0.5
_migration_vulnerability(demographic_updates) ==
  LET mx == series_max(demographic_updates)
      normalized == [k \in DOMAIN demographic_updates |->
          FDiv(demographic_updates[k], FAdd(mx, Eps))]
  IN series_fillna(normalized, Frac(1, 0, 2, 0))

\* vulnerability_scores += sub * weight
add_weighted(scores, sub, weight) ==
  [k \in DOMAIN scores |-> FAdd(scores[k], FMul(sub[k], weight))]

\* the Series calculate_vulnerability_score(df) returns
vulnerability_scores(df) ==
  LET s0 == [k \in 1..Len(df.rows) |-> Num(0)]
      s1 == IF "Age_Group" \in ColSet(df)
            THEN add_weighted(s0, age_vuln(Series(df, "Age_Group")), Frac(2, 0, 5, 0))
            ELSE s0
      s2 == IF "State" \in ColSet(df) /\ "Enrolment_Count" \in ColSet(df)
            THEN add_weighted(s1, _geographic_vulnerability(Series(df, "Enrolment_Count")),
                              Frac(3, 0, 10, 0))
            ELSE s1
      s3 == IF "Biometric_Updates" \in ColSet(df)
            THEN add_weighted(s2, _biometric_vulnerability(Series(df, "Biometric_Updates")),
                              Frac(1, 0, 5, 0))
            ELSE s2
      s4 == IF "Demographic_Updates" \in ColSet(df)
            THEN add_weighted(s3, _migration_vulnerability(Series(df, "Demographic_Updates")),
                              Frac(1, 0, 10, 0))
            ELSE s3
  IN s4

\* a call of calculate_vulnerability_score on the batch arg
calculate_vulnerability_score ==
  /\ op = "batch"
  /\ op' = "calculate_vulnerability_score"
  /\ ret' = to_frame(arg, "Vulnerability_Score", vulnerability_scores(arg))
  /\ err' = "none"
  /\ UNCHANGED <<dfs, arg, read, ml>>

\* a call of one of the sub-score functions on its column of the batch arg
call_sub_score(name, col, s) ==
  /\ op = "batch"
  /\ col \in ColSet(arg)
  /\ op' = name
  /\ ret' = to_frame(arg, col, s)
  /\ err' = "none"
  /\ UNCHANGED <<dfs, arg, read, ml>>

call_age_vulnerability_score ==
  call_sub_score("_age_vulnerability_score", "Age_Group",
                 age_vuln(Series(arg, "Age_Group")))

call_geographic_vulnerability ==
  call_sub_score("_geographic_vulnerability", "Enrolment_Count",
                 _geographic_vulnerability(Series(arg, "Enrolment_Count")))

call_biometric_vulnerability ==
  call_sub_score("_biometric_vulnerability", "Biometric_Updates",
                 _biometric_vulnerability(Series(arg, "Biometric_Updates")))

call_migration_vulnerability ==
  call_sub_score("_migration_vulnerability", "Demographic_Updates",
                 _migration_vulnerability(Series(arg, "Demographic_Updates")))

(***************************************************************************)
(* SpecVuln: the vulnerability score and its sub-scores applied to a batch *)
(***************************************************************************)
MaxVulnRows == 2

\* the values of a column of the batches.  The sum of the weighted
\* sub-scores stays within the modelled numbers when at most one of its
\* terms depends on 1e-6: a batch either has one count column, with any of
\* the values, or all the columns, with Enrolment_Count constant or missing
\* and Demographic_Updates zero or missing.
VulnValues(col, single) ==
  CASE col = "Age_Group" -> {StrOther(7), StrOther(8), NaN}
    [] col = "State" -> {StrOther(1)}
    [] col = "Enrolment_Count" ->
         IF single THEN {NaN, Num(0), Num(4), Num(-3)} ELSE {NaN, Num(4)}
    [] col = "Biometric_Updates" ->
         IF single THEN {NaN, Num(0), Num(4), Num(-3)} ELSE {NaN, Num(4), Num(-3)}
    [] col = "Demographic_Updates" ->
         IF single THEN {NaN, Num(0), Num(4), Num(-3)} ELSE {NaN, Num(0)}

VulnColumns ==
  { <<"Age_Group">>, <<"Enrolment_Count">>, <<"State", "Enrolment_Count">>,
    <<"Age_Group", "State", "Enrolment_Count">>, <<"Biometric_Updates">>,
    <<"Demographic_Updates">>, <<"Age_Group", "Demographic_Updates">>,
    <<"Age_Group", "State", "Enrolment_Count", "Biometric_Updates",
      "Demographic_Updates">> }

VulnRows(columns) ==
  { r \in [Range(columns) ->
             UNION {VulnValues(col, Len(columns) < 5) : col \in Range(columns)}] :
      \A col \in Range(columns) : r[col] \in VulnValues(col, Len(columns) < 5) }

\* the batches over the given columns, of up to MaxVulnRows rows
VulnBatches(columns) ==
  { read_csv(cr, columns) :
      cr \in UNION {[1..n -> VulnRows(columns)] : n \in 0..MaxVulnRows} }

InitVuln ==
  /\ enrolment_df = None
  /\ demographic_df = None
  /\ biometric_df = None
  /\ op = "batch"
  /\ ret = None
  /\ err = "none"
  /\ \E columns \in VulnColumns : arg \in VulnBatches(columns)
  /\ read = {}
  /\ NoModels

NextVuln ==
  \/ calculate_vulnerability_score
  \/ call_age_vulnerability_score
  \/ call_geographic_vulnerability
  \/ call_biometric_vulnerability
  \/ call_migration_vulnerability

SpecVuln == InitVuln /\ [][NextVuln]_vars

\* the last call was calculate_vulnerability_score on the batch arg
VulnDone == op = "calculate_vulnerability_score" /\ err = "none"

\* the weighted sub-score of row k when its source column is present, 0
\* (the term left out of the sum) when it is absent
Term(col, sub, weight, k) ==
  IF col \in ColSet(arg) THEN FMul(sub[k], weight) ELSE Num(0)

\* C11: for every row the score lies in [0, 100] and equals the sum of
\* 0.4*ageScore, 0.3*geoScore, 0.2*bioScore and 0.1*migScore over exactly
\* the sub-scores whose source column (Age_Group, Enrolment_Count,
\* Biometric_Updates, Demographic_Updates) is present; with only Age_Group
\* present and value "Child (0-5)" the score is 0.4.
C11_WeightedSumOfPresent ==
  VulnDone =>
    \A k \in 1..Len(arg.rows) :
      LET score == ret.rows[k].c["Vulnerability_Score"]
          age == IF "Age_Group" \in ColSet(arg)
                 THEN age_vuln(Series(arg, "Age_Group")) ELSE <<>>
          geo == IF "Enrolment_Count" \in ColSet(arg)
                 THEN _geographic_vulnerability(Series(arg, "Enrolment_Count")) ELSE <<>>
          bio == IF "Biometric_Updates" \in ColSet(arg)
                 THEN _biometric_vulnerability(Series(arg, "Biometric_Updates")) ELSE <<>>
          mig == IF "Demographic_Updates" \in ColSet(arg)
                 THEN _migration_vulnerability(Series(arg, "Demographic_Updates")) ELSE <<>>
      IN /\ score.t = "num"
         /\ FLeq(Num(0), score)
         /\ FLeq(score, Num(100))
         /\ score = FAdd(FAdd(FAdd(Term("Age_Group", age, Frac(2, 0, 5, 0), k),
                                   Term("Enrolment_Count", geo, Frac(3, 0, 10, 0), k)),
                              Term("Biometric_Updates", bio, Frac(1, 0, 5, 0), k)),
                         Term("Demographic_Updates", mig, Frac(1, 0, 10, 0), k))
         /\ (arg.columns = <<"Age_Group">> /\ arg.rows[k].c["Age_Group"] = StrOther(7))
              => score = Frac(2, 0, 5, 0)

SubScoreOps ==
  {"_age_vulnerability_score", "_geographic_vulnerability",
   "_biometric_vulnerability", "_migration_vulnerability"}

\* C12: each of the four sub-scores is a number in [0, 1] for every row of
\* every batch of numbers.
C12_SubScoreInUnitRange ==
  op \in SubScoreOps =>
    \A k \in 1..Len(ret.rows) :
      \A col \in ColSet(ret) :
        /\ ret.rows[k].c[col].t = "num"
        /\ FLeq(Num(0), ret.rows[k].c[col])
        /\ FLeq(ret.rows[k].c[col], Num(1))

(***************************************************************************)
(* SpecBio: calculate_biometric_quality on a loaded biometric dataset      *)
(***************************************************************************)
MaxBioRows == 2

\* biometric files: State "A", "B" or missing, Update_Count missing, 0, 50
\* or -5, Age_Group "Child (0-5)" or missing
BioFiles ==
  { read_csv(cr, <<"State", "Update_Count", "Age_Group">>) :
      cr \in UNION {[1..n ->
        { RowB(s, u, g) : s \in {StrOther(1), StrOther(5), NaN},
                          u \in {NaN, Num(0), Num(50), Num(-5)},
                          g \in {NaN, StrOther(7)} }] : n \in 0..MaxBioRows} }

InitBio ==
  /\ enrolment_df = None
  /\ demographic_df = None
  /\ biometric_df \in BioFiles
  /\ op = "load_datasets"
  /\ ret = None
  /\ err = "none"
  /\ arg = None
  /\ read = {"biometric"}
  /\ NoModels

NextBio == calculate_biometric_quality

SpecBio == InitBio /\ [][NextBio]_vars

\* the last call was calculate_biometric_quality and it returned ret
BioDone == op = "calculate_biometric_quality" /\ err = "none"

\* the States that occur in the biometric dataset
BioStates ==
  IF "State" \in ColSet(biometric_df)
  THEN {biometric_df.rows[k].c["State"] : k \in 1..Len(biometric_df.rows)} \ {NaN}
  ELSE {}

\* C13: calculate_biometric_quality returns one row per distinct State,
\* with Biometric_Coverage = Total_Updates / (Individuals_Updated + 1e-6) *
\* 100, a finite number for every state, Individuals_Updated = 0 included.
C13_CoverageFinite ==
  BioDone =>
    /\ Len(ret.rows) = Cardinality(BioStates)
    /\ {ret.rows[k].c["State"] : k \in 1..Len(ret.rows)} = BioStates
    /\ \A k \in 1..Len(ret.rows) :
         LET r == ret.rows[k].c
         IN /\ r["Biometric_Coverage"].t = "num"
            /\ FMul(r["Biometric_Coverage"], FAdd(r["Individuals_Updated"], Eps))
                 = FMul(r["Total_Updates"], Num(100))

\* a state with Total_Updates 50 and Individuals_Updated 0 has got the
\* coverage 50 / 1e-6 * 100
C13_Witness ==
  /\ BioDone
  /\ \E k \in 1..Len(ret.rows) :
       /\ ret.rows[k].c["Total_Updates"] = Num(50)
       /\ ret.rows[k].c["Individuals_Updated"] = Num(0)
       /\ ret.rows[k].c["Biometric_Coverage"] = Frac(5000, 0, 0, 1)

(***************************************************************************)
(* Statistical anomalies                                                   *)
(***************************************************************************)
\* df[mask]: the rows of df at the positions where mask holds, in order,
\* with their index labels
boolean_index(df, mask) ==
  LET F[k \in 0..Len(df.rows)] ==
        IF k = 0 THEN <<>>
        ELSE IF mask[k] THEN Append(F[k - 1], df.rows[k]) ELSE F[k - 1]
  IN [df EXCEPT !.rows = F[Len(df.rows)]]

\* the sum of the values of series s
series_sum(s) == group_sum(s, DOMAIN s)

\* np.abs(stats.zscore(a)) > threshold with the standard deviation of
\* ddof delta degrees of freedom: the score of a value is its deviation from
\* the mean divided by the standard deviation.  Both sides of the comparison
\* are non-negative (threshold >= 0), so it is made on their squares; a zero
\* standard deviation gives missing scores, which exceed nothing.
zscore_exceeds(a, threshold, ddof) ==
  LET n == Len(a)
      mn == FDiv(series_sum(a), Num(n))
      dev == [k \in 1..n |-> FSub(a[k], mn)]
      var == FDiv(series_sum([k \in 1..n |-> FMul(dev[k], dev[k])]), Num(n - ddof))
  IN [k \in 1..n |->
        /\ var.t = "num"
        /\ FSgn(var) > 0
        /\ FLess(FMul(FMul(threshold, threshold), var), FMul(dev[k], dev[k]))]

\* the exception identify_anomalies(df, column, threshold) raises, "none"
\* when it returns: df is None, the column is missing, or it holds text
identify_anomalies_error(df, column) ==
  IF IsNone(df) THEN "AttributeError"
  ELSE IF column \notin ColSet(df) THEN "KeyError"
  ELSE IF df.dtypes[column] = "object" THEN "TypeError"
  ELSE "none"

\* the standard score taken with the sample standard deviation (ddof = 1)
anomalies_sample_std(df, column, threshold) ==
  boolean_index(df, zscore_exceeds(series_fillna(Series(df, column), Num(0)), threshold, 1))

\* the DataFrame identify_anomalies(df, column, threshold) returns
anomalies(df, column, threshold) ==
  boolean_index(df, zscore_exceeds(series_fillna(Series(df, column), Num(0)), threshold, 0))

\* a call identify_anomalies(df, column, threshold); arg' holds the
\* arguments as they are after the call
identify_anomalies_call(df, column, threshold) ==
  /\ op' = "identify_anomalies"
  /\ err' = identify_anomalies_error(df, column)
  /\ ret' = IF err' = "none" THEN anomalies(df, column, threshold) ELSE None
  /\ arg' = [df |-> df, column |-> column, threshold |-> threshold]
  /\ UNCHANGED <<dfs, read, ml>>

\* a call on the batch arg
call_identify_anomalies ==
  /\ op = "batch"
  /\ identify_anomalies_call(arg.df, arg.column, arg.threshold)

(***************************************************************************)
(* SpecAnom: identify_anomalies applied to a column of numbers             *)
(***************************************************************************)
MaxAnomRows == 5

\* the columns: one to MaxAnomRows values, each missing, 1 or 100
AnomBatches ==
  { read_csv(cr, <<"Update_Count">>) :
      cr \in UNION {[1..n -> {("Update_Count" :> u) : u \in {NaN, Num(1), Num(100)}}] :
                      n \in 1..MaxAnomRows} }

\* the thresholds 2.5 (the default) and 1.5
AnomThresholds == {Frac(5, 0, 2, 0), Frac(3, 0, 2, 0)}

InitAnom ==
  /\ enrolment_df = None
  /\ demographic_df = None
  /\ biometric_df = None
  /\ op = "batch"
  /\ ret = None
  /\ err = "none"
  /\ arg \in [df : AnomBatches, column : {"Update_Count"}, threshold : AnomThresholds]
  /\ read = {}
  /\ NoModels

NextAnom == call_identify_anomalies

SpecAnom == InitAnom /\ [][NextAnom]_vars

\* the last call was identify_anomalies and it returned ret
AnomDone == op = "identify_anomalies" /\ err = "none"

\* the value of row k of the column after nulls are replaced by 0
AnomValue(k) ==
  IF isnull(arg.df.rows[k].c[arg.column]) THEN 0 ELSE arg.df.rows[k].c[arg.column].v

RECURSIVE SumTo(_, _)
SumTo(f, n) == IF n = 0 THEN 0 ELSE f[n] + SumTo(f, n - 1)

\* the absolute standard score of row k exceeds the threshold p/q, the score
\* taken with the population mean S/n and the population standard deviation
\* sqrt(Q/n - (S/n)^2): |x - S/n| > (p/q) * sqrt(Q/n - (S/n)^2)
ScoreExceeds(k) ==
  LET n == Len(arg.df.rows)
      S == SumTo([j \in 1..n |-> AnomValue(j)], n)
      Q == SumTo([j \in 1..n |-> AnomValue(j) * AnomValue(j)], n)
      p == arg.threshold.v
      q == arg.threshold.d
  IN /\ n * Q - S * S > 0
     /\ q * q * (n * AnomValue(k) - S) * (n * AnomValue(k) - S) > p * p * (n * Q - S * S)

\* the returned rows are exactly the rows whose score exceeds the threshold
ExactlyExceeding ==
  /\ \A j \in 1..Len(ret.rows) :
       \E k \in 1..Len(arg.df.rows) : ScoreExceeds(k) /\ ret.rows[j] = arg.df.rows[k]
  /\ Len(ret.rows) = Cardinality({k \in 1..Len(arg.df.rows) : ScoreExceeds(k)})

\* the column [1, 1, 1, 1, 100]
ExampleColumn ==
  /\ Len(arg.df.rows) = 5
  /\ \A k \in 1..4 : arg.df.rows[k].c[arg.column] = Num(1)
  /\ arg.df.rows[5].c[arg.column] = Num(100)

\* C14 as stated: identify_anomalies returns exactly the rows whose absolute
\* standard score (population mean and standard deviation, nulls replaced
\* by 0) exceeds the threshold, and on [1, 1, 1, 1, 100] with threshold 2.5
\* it returns exactly the row with value 100.
C14_ExampleFlagsOutlier ==
  AnomDone =>
    /\ ExactlyExceeding
    /\ (ExampleColumn /\ arg.threshold = Frac(5, 0, 2, 0))
         => (Len(ret.rows) = 1 /\ ret.rows[1] = arg.df.rows[5])

\* C14 as amended: the same rows are returned, and on [1, 1, 1, 1, 100] the
\* score of the value 100 is exactly 2, so threshold 2.5 returns no row and
\* threshold 1.5 returns exactly the row with value 100.
C14_ExactlyExceeding ==
  AnomDone =>
    /\ ExactlyExceeding
    /\ (ExampleColumn /\ arg.threshold = Frac(5, 0, 2, 0)) => Len(ret.rows) = 0
    /\ (ExampleColumn /\ arg.threshold = Frac(3, 0, 2, 0))
         => (Len(ret.rows) = 1 /\ ret.rows[1] = arg.df.rows[5])

\* identify_anomalies has returned the row with value 100 of the column
\* [1, 1, 1, 1, 100] for threshold 1.5
C14_Witness ==
  /\ AnomDone
  /\ ExampleColumn
  /\ arg.threshold = Frac(3, 0, 2, 0)
  /\ ret.rows = <<arg.df.rows[5]>>

(***************************************************************************)
(* The adapters of the external models (src/lib/ml_models.py):             *)
(* AnomalyDetector and PopulationClusterer.  What scikit-learn computes is *)
(* not modelled: a fit either fails (the library is missing, or it rejects *)
(* the data or a parameter) or succeeds with any labels of its range.  A   *)
(* call returns ret = [out, log]: out is the returned value and log tells  *)
(* whether the except branch has logged an error.                          *)
(***************************************************************************)
\* a fitted model or scaler object
Fitted(X) == [fitted |-> TRUE, n_samples |-> Len(X.rows)]

\* StandardScaler().fit_transform(X.fillna(0)) raises: X has no row, or a
\* column that holds text
fit_rejects(X) ==
  \/ Len(X.rows) = 0
  \/ \E col \in ColSet(X) : X.dtypes[col] = "object"

\* the labels fit_predict of IsolationForest and LocalOutlierFactor can
\* return for n rows: -1 = anomaly, 1 = normal
Predictions(n) == [1..n -> {-1, 1}]

\* np.ones(len(X))
ones(X) == [k \in 1..Len(X.rows) |-> 1]

\* a detector that stores the model and the scaler before fitting them: a
\* failed fit leaves them set
detect_isolation_forest_caches_first(X) ==
  /\ op' = "detect_isolation_forest"
  /\ arg' = X
  /\ err' = "none"
  /\ isolation_forest' = Fitted(X)
  /\ scaler' = Fitted(X)
  /\ \/ /\ ~fit_rejects(X)
        /\ \E predictions \in Predictions(Len(X.rows)) :
             ret' = [out |-> predictions, log |-> "none"]
     \/ ret' = [out |-> ones(X), log |-> "error"]
  /\ UNCHANGED <<dfs, read, lof, kmeans_model, kmeans_scaler>>

\* detect_isolation_forest(X)
detect_isolation_forest_on(X) ==
  /\ op' = "detect_isolation_forest"
  /\ arg' = X
  /\ err' = "none"
  /\ \/ /\ ~fit_rejects(X)
        /\ \E predictions \in Predictions(Len(X.rows)) :
             ret' = [out |-> predictions, log |-> "none"]
        /\ isolation_forest' = Fitted(X)
        /\ scaler' = Fitted(X)
        /\ UNCHANGED lof
     \/ /\ ret' = [out |-> ones(X), log |-> "error"]
        /\ UNCHANGED <<isolation_forest, scaler, lof>>
  /\ UNCHANGED <<dfs, read, kmeans_model, kmeans_scaler>>

\* detect_lof(X)
detect_lof_on(X) ==
  /\ op' = "detect_lof"
  /\ arg' = X
  /\ err' = "none"
  /\ \/ /\ ~fit_rejects(X)
        /\ \E predictions \in Predictions(Len(X.rows)) :
             ret' = [out |-> predictions, log |-> "none"]
        /\ lof' = Fitted(X)
     \/ /\ ret' = [out |-> ones(X), log |-> "error"]
        /\ UNCHANGED lof
  /\ UNCHANGED <<dfs, read, isolation_forest, scaler, kmeans_model, kmeans_scaler>>

\* np.zeros(len(X))
zeros(X) == [k \in 1..Len(X.rows) |-> Num(0)]

\* the vectors (scores - scores.min()) / (scores.max() - scores.min() + 1e-6)
\* can be for n rows: each score is 0 or in between (1/2 stands for these),
\* and the smallest score is 0
Scores(n) == {sc \in [1..n -> {Num(0), Frac(1, 0, 2, 0)}] : \E k \in 1..n : sc[k] = Num(0)}

\* get_anomaly_scores(X): the scaler it fits is a local one
get_anomaly_scores_on(X) ==
  /\ op' = "get_anomaly_scores"
  /\ arg' = X
  /\ err' = "none"
  /\ \/ /\ ~fit_rejects(X)
        /\ IF isolation_forest.fitted
           THEN \E scores \in Scores(Len(X.rows)) : ret' = [out |-> scores, log |-> "none"]
           ELSE ret' = [out |-> zeros(X), log |-> "none"]
     \/ ret' = [out |-> zeros(X), log |-> "error"]
  /\ UNCHANGED <<dfs, read, ml>>

\* the clusterer is constructed as PopulationClusterer(n_clusters=2)
n_clusters == 2

\* df_result = df.copy(); df_result['Cluster'] = clusters
with_cluster(df, clusters) ==
  [loaded |-> TRUE,
   columns |-> df.columns \o <<"Cluster">>,
   dtypes |-> df.dtypes @@ ("Cluster" :> "number"),
   rows |-> [k \in 1..Len(df.rows) |->
       [i |-> df.rows[k].i, c |-> df.rows[k].c @@ ("Cluster" :> Num(clusters[k]))]]]

\* df[features] restricted to the columns the fit sees
select_columns(df, features) ==
  [loaded |-> TRUE,
   columns |-> features,
   dtypes |-> [col \in Range(features) |-> df.dtypes[col]],
   rows |-> [k \in 1..Len(df.rows) |->
       [i |-> df.rows[k].i, c |-> [col \in Range(features) |-> df.rows[k].c[col]]]]]

\* the fit of cluster_regions raises: a feature is not a column of df, the
\* scaler rejects the data, or there are fewer rows than clusters
cluster_rejects(df, features) ==
  \/ \E col \in Range(features) : col \notin ColSet(df)
  \/ fit_rejects(select_columns(df, features))
  \/ Len(df.rows) < n_clusters

\* cluster_regions(df, features): the except branch (the library is missing or
\* the fit raises) returns df itself
cluster_regions_on(df, features) ==
  /\ op' = "cluster_regions"
  /\ arg' = df
  /\ err' = "none"
  /\ \/ /\ ~cluster_rejects(df, features)
        /\ \E clusters \in [1..Len(df.rows) -> 0..(n_clusters - 1)] :
             ret' = [out |-> with_cluster(df, clusters), log |-> "none"]
        /\ kmeans_model' = Fitted(df)
        /\ kmeans_scaler' = Fitted(df)
     \/ /\ ret' = [out |-> df, log |-> "error"]
        /\ UNCHANGED <<kmeans_model, kmeans_scaler>>
  /\ UNCHANGED <<dfs, read, isolation_forest, lof, scaler>>

(***************************************************************************)
(* SpecAdapter: an AnomalyDetector and a PopulationClusterer from their    *)
(* construction on, their operations called in any order on any batch      *)
(***************************************************************************)
MaxAdapterRows == 2

\* the batches: a column Update_Count of numbers, missing values or texts
AdapterBatches ==
  { read_csv(cr, <<"Update_Count">>) :
      cr \in UNION {[1..n -> {("Update_Count" :> u) : u \in {NaN, Num(1), StrOther(3)}}] :
                      n \in 0..MaxAdapterRows} }

detect_isolation_forest == \E X \in AdapterBatches : detect_isolation_forest_on(X)

detect_lof == \E X \in AdapterBatches : detect_lof_on(X)

cluster_regions ==
  \E df \in AdapterBatches, features \in {<<"Update_Count">>, <<"Cluster_Feature">>} :
    cluster_regions_on(df, features)

InitAdapter ==
  /\ enrolment_df = None
  /\ demographic_df = None
  /\ biometric_df = None
  /\ op = "__init__"
  /\ ret = None
  /\ err = "none"
  /\ arg = None
  /\ read = {}
  /\ NoModels

get_anomaly_scores == \E X \in AdapterBatches : get_anomaly_scores_on(X)

NextAdapter ==
  \/ cluster_regions
  \/ get_anomaly_scores
  \/ detect_isolation_forest
  \/ detect_lof

SpecAdapter == InitAdapter /\ [][NextAdapter]_vars

\* the last call was an adapter call whose model failed
AdapterFailed(o) == op = o /\ ret.log = "error"

\* C15: when the underlying model fails, detect_isolation_forest and
\* detect_lof raise nothing and return one 'normal' label per input row, and
\* cluster_regions raises nothing and returns a result that assigns cluster
\* id 0 to every input row.
C15_DegradeNotCrash ==
  /\ (AdapterFailed("detect_isolation_forest") \/ AdapterFailed("detect_lof"))
       => (err = "none" /\ ret.out = [k \in 1..Len(arg.rows) |-> 1])
  /\ AdapterFailed("cluster_regions")
       => /\ err = "none"
          /\ "Cluster" \in ColSet(ret.out)
          /\ Len(ret.out.rows) = Len(arg.rows)
          /\ \A k \in 1..Len(ret.out.rows) : ret.out.rows[k].c["Cluster"] = Num(0)

(***************************************************************************)
(* Age-group analysis                                                      *)
(***************************************************************************)
\* df.groupby('Age_Group').agg({value_col: 'sum'}).reset_index(), value_col
\* a numeric column of df: one row per Age_Group that occurs, in sorted
\* order, rows with a missing Age_Group dropped
age_group_sum(df, value_col) ==
  LET Age_Group == Series(df, "Age_Group")
      keys == SortKeys({Age_Group[k] : k \in {j \in DOMAIN Age_Group : ~isnull(Age_Group[j])}})
      idx(g) == {k \in DOMAIN Age_Group : Age_Group[k] = g}
  IN [loaded |-> TRUE,
      columns |-> <<"Age_Group", value_col>>,
      dtypes |-> ("Age_Group" :> df.dtypes["Age_Group"]) @@ (value_col :> "number"),
      rows |-> [k \in 1..Len(keys) |->
          [i |-> k - 1,
           c |-> ("Age_Group" :> keys[k])
                 @@ (value_col :> group_sum(Series(df, value_col), idx(keys[k])))]]]

\* df is not None and 'Age_Group' in df.columns
has_age_group(df) == ~IsNone(df) /\ "Age_Group" \in ColSet(df)

\* the exception calculate_age_group_analysis raises, "none" when it
\* returns: agg raises KeyError on a column that is not in the dataset
age_group_error(enrol, demo, bio) ==
  IF has_age_group(enrol) /\ "Aadhaar Generated" \notin ColSet(enrol) THEN "KeyError"
  ELSE IF has_age_group(demo) /\ "Update_Count" \notin ColSet(demo) THEN "KeyError"
  ELSE IF has_age_group(bio) /\ "Update_Count" \notin ColSet(bio) THEN "KeyError"
  ELSE "none"

\* the dict calculate_age_group_analysis returns
age_group_analysis(enrol, demo, bio) ==
  [key \in (IF has_age_group(enrol) THEN {"enrolment_age"} ELSE {})
           \cup (IF has_age_group(demo) THEN {"demographic_age"} ELSE {})
           \cup (IF has_age_group(bio) THEN {"biometric_age"} ELSE {}) |->
     CASE key = "enrolment_age" -> age_group_sum(enrol, "Aadhaar Generated")
       [] key = "demographic_age" -> age_group_sum(demo, "Update_Count")
       [] key = "biometric_age" -> age_group_sum(bio, "Update_Count")]

calculate_age_group_analysis ==
  /\ op' = "calculate_age_group_analysis"
  /\ err' = age_group_error(enrolment_df, demographic_df, biometric_df)
  /\ ret' = IF err' = "none"
            THEN [analysis |-> age_group_analysis(enrolment_df, demographic_df, biometric_df)]
            ELSE None
  /\ arg' = None
  /\ UNCHANGED <<dfs, read, ml>>

(***************************************************************************)
(* SpecSchema: the three calculations on loaded datasets whose files lack  *)
(* columns                                                                 *)
(***************************************************************************)
\* the number of columns a file may lack
MaxDropped == 1

\* files with every column the three calculations look for: State "A"
\* (StrOther(1)), Age_Group "Child (0-5)" (StrOther(7)) and "Adult (26-40)"
\* (StrOther(8))
FullEnrolment ==
  read_csv(<<RowE(StrOther(1), Num(9)) @@ ("Age_Group" :> StrOther(7))>>,
           KeyColumns \o <<"Aadhaar Generated", "Age_Group">>)
FullDemographic ==
  read_csv(<<RowD(StrOther(1), Num(2)) @@ ("Update_Count" :> Num(2)) @@ ("Age_Group" :> StrOther(8))>>,
           KeyColumns \o <<"Aadhaar Generated", "Update_count", "Update_Count", "Age_Group">>)
FullBiometric ==
  read_csv(<<RowB(StrOther(1), Num(50), StrOther(7)), RowB(StrOther(1), Num(5), StrOther(8))>>,
           <<"State", "Update_Count", "Age_Group">>)

\* the files that lack at most MaxDropped of the columns of file full
SchemaFiles(full) ==
  { select_columns(full, SelectSeq(full.columns, LAMBDA c : c \notin D)) :
      D \in {S \in SUBSET ColSet(full) : Cardinality(S) <= MaxDropped} }

InitSchema ==
  /\ enrolment_df \in SchemaFiles(FullEnrolment)
  /\ demographic_df \in SchemaFiles(FullDemographic)
  /\ biometric_df \in SchemaFiles(FullBiometric)
  /\ op = "load_datasets"
  /\ ret = None
  /\ err = "none"
  /\ arg = None
  /\ read = {"enrolment", "demographic", "biometric"}
  /\ NoModels

NextSchema ==
  \/ calculate_migration_indicators
  \/ calculate_biometric_quality
  \/ calculate_age_group_analysis

SpecSchema == InitSchema /\ [][NextSchema]_vars

\* dataset df lacks one of the columns cols
Lacks(df, cols) == \E c \in cols : c \notin ColSet(df)

\* the last operation needed a column that its loaded dataset lacks
MissingColumn ==
  \/ /\ op = "calculate_migration_indicators"
     /\ \/ Lacks(enrolment_df, Range(KeyColumns) \cup {"Aadhaar Generated"})
        \/ Lacks(demographic_df, Range(KeyColumns) \cup {"Aadhaar Generated", "Update_count"})
  \/ /\ op = "calculate_biometric_quality"
     /\ Lacks(biometric_df, {"State", "Update_Count", "Age_Group"})
  \/ /\ op = "calculate_age_group_analysis"
     /\ \/ Lacks(enrolment_df, {"Aadhaar Generated"})
        \/ Lacks(demographic_df, {"Update_Count"})
        \/ Lacks(biometric_df, {"Update_Count"})

\* C16: calculate_migration_indicators, calculate_biometric_quality and
\* calculate_age_group_analysis, called on loaded datasets that lack a
\* column the operation needs, raise nothing; the first two then return an
\* empty frame and the third a dict of per-dataset results.
C16_MissingColumnNeverRaises ==
  MissingColumn =>
    /\ err = "none"
    /\ op \in {"calculate_migration_indicators", "calculate_biometric_quality"}
         => ret = EmptyFrame
    /\ op = "calculate_age_group_analysis" => DOMAIN ret = {"analysis"}

(***************************************************************************)
(* Aggregation by state and district                                       *)
(***************************************************************************)
\* the order groupby sorts the (State, District) keys in
PairLess(p, q) == KeyLess(p[1], q[1]) \/ (p[1] = q[1] /\ KeyLess(p[2], q[2]))

RECURSIVE SortPairs(_)
SortPairs(S) ==
  IF S = {} THEN <<>>
  ELSE LET m == CHOOSE x \in S : \A y \in S \ {x} : PairLess(x, y)
       IN <<m>> \o SortPairs(S \ {m})

\* the exception aggregate_by_state_district raises, "none" when it
\* returns: the selection of a column the grouped frame does not have
aggregate_error(df, value_col) ==
  IF "State" \notin ColSet(df) \/ "District" \notin ColSet(df) THEN "none"
  ELSE IF value_col \notin ColSet(df) THEN "KeyError"
  ELSE "none"

\* the DataFrame aggregate_by_state_district returns, value_col a numeric
\* column: groupby drops the rows whose State or District is missing
agg_df(df, value_col) ==
  IF "State" \notin ColSet(df) \/ "District" \notin ColSet(df) THEN df
  ELSE LET State == Series(df, "State")
           District == Series(df, "District")
           present == {k \in DOMAIN State : ~isnull(State[k]) /\ ~isnull(District[k])}
           keys == SortPairs({<<State[k], District[k]>> : k \in present})
           idx(g) == {k \in present : <<State[k], District[k]>> = g}
       IN [loaded |-> TRUE,
           columns |-> <<"State", "District", value_col>>,
           dtypes |-> ("State" :> df.dtypes["State"]) @@ ("District" :> df.dtypes["District"])
                      @@ (value_col :> "number"),
           rows |-> [k \in 1..Len(keys) |->
               [i |-> k - 1,
                c |-> ("State" :> keys[k][1]) @@ ("District" :> keys[k][2])
                      @@ (value_col :> group_sum(Series(df, value_col), idx(keys[k])))]]]

\* aggregate_by_state_district(df, value_col)
aggregate_call(df, value_col) ==
  /\ op' = "aggregate_by_state_district"
  /\ err' = aggregate_error(df, value_col)
  /\ ret' = IF err' = "none" THEN agg_df(df, value_col) ELSE None
  /\ arg' = [df |-> df, value_col |-> value_col]
  /\ UNCHANGED <<dfs, read, ml>>

\* a call on the batch arg
call_aggregate_by_state_district ==
  /\ op = "batch"
  /\ aggregate_call(arg.df, arg.value_col)

(***************************************************************************)
(* SpecAgg: aggregate_by_state_district applied to a frame                 *)
(***************************************************************************)
MaxAggRows == 2

AggColumns ==
  { <<"State", "District", "Aadhaar Generated">>,
    <<"State", "Aadhaar Generated">>,
    <<"District", "Aadhaar Generated">> }

\* the rows over the given columns: State "A" or "B", District "X" or
\* missing, Aadhaar Generated 1, 2 or missing
AggRows(columns) ==
  { [col \in Range(columns) |-> IF col = "State" THEN s ELSE IF col = "District" THEN d ELSE a] :
      s \in {StrOther(1), StrOther(5)}, d \in {StrOther(2), NaN},
      a \in {NaN, Num(1), Num(2)} }

AggBatches ==
  UNION { { read_csv(cr, columns) :
              cr \in UNION {[1..n -> AggRows(columns)] : n \in 0..MaxAggRows} } :
          columns \in AggColumns }

InitAgg ==
  /\ enrolment_df = None
  /\ demographic_df = None
  /\ biometric_df = None
  /\ op = "batch"
  /\ ret = None
  /\ err = "none"
  /\ arg \in [df : AggBatches, value_col : {"Aadhaar Generated", "Update_Count"}]
  /\ read = {}
  /\ NoModels

NextAgg == call_aggregate_by_state_district

SpecAgg == InitAgg /\ [][NextAgg]_vars

AggDone == op = "aggregate_by_state_district" /\ err = "none"

\* the (State, District) pairs that occur in the rows of df
PairsOf(df) == {<<df.rows[k].c["State"], df.rows[k].c["District"]>> : k \in 1..Len(df.rows)}

\* the sum of column col of df over its rows with the pair g, missing
\* values counted as 0
RECURSIVE PairSum(_, _, _, _)
PairSum(df, col, g, n) ==
  IF n = 0 THEN Num(0)
  ELSE LET r == df.rows[n].c
           rest == PairSum(df, col, g, n - 1)
       IN IF <<r["State"], r["District"]>> = g /\ ~isnull(r[col]) THEN FAdd(rest, r[col])
          ELSE rest

\* C17: aggregate_by_state_district(df, value_col) on a df with State and
\* District returns exactly one row per (State, District) pair that occurs
\* in df, holding the sum of value_col over the rows of the pair; on a df
\* without State or District it returns df itself.
C17_OneRowPerPair ==
  AggDone =>
    IF {"State", "District"} \subseteq ColSet(arg.df)
    THEN /\ Len(ret.rows) = Cardinality(PairsOf(arg.df))
         /\ \A g \in PairsOf(arg.df) :
              \E k \in 1..Len(ret.rows) :
                /\ <<ret.rows[k].c["State"], ret.rows[k].c["District"]>> = g
                /\ ret.rows[k].c[arg.value_col]
                     = PairSum(arg.df, arg.value_col, g, Len(arg.df.rows))
    ELSE ret = arg.df

(***************************************************************************)
(* InsightGenerator.  An insight is a record of its category, its          *)
(* severity, the number its finding text reports and its details; the      *)
(* fixed recommendation text is left out.                                  *)
(***************************************************************************)
\* the sequence s without its element at position k
RemoveAt(s, k) == [j \in 1..(Len(s) - 1) |-> IF j < k THEN s[j] ELSE s[j + 1]]

\* the rows of df.nlargest(n, column), column numeric without missing
\* values: by descending value, equal values in their order in df
RECURSIVE nlargest_rows(_, _, _)
nlargest_rows(rows, n, column) ==
  IF n = 0 \/ rows = <<>> THEN <<>>
  ELSE LET k == CHOOSE k \in 1..Len(rows) :
                  /\ \A j \in 1..Len(rows) : FLeq(rows[j].c[column], rows[k].c[column])
                  /\ \A j \in 1..(k - 1) : rows[j].c[column] # rows[k].c[column]
       IN <<rows[k]>> \o nlargest_rows(RemoveAt(rows, k), n - 1, column)

\* df[columns].to_dict('records') over the given rows
to_dict_records(rows, columns) ==
  [k \in 1..Len(rows) |-> [col \in Range(columns) |-> rows[k].c[col]]]

\* the exception generate_migration_insights raises, "none" when it returns
migration_insights_error(migration_df) ==
  IF "Migration_Risk" \notin ColSet(migration_df) THEN "KeyError"
  ELSE IF Len(migration_df.rows) > 0 /\ ~({"State", "District"} \subseteq ColSet(migration_df))
  THEN "KeyError"
  ELSE "none"

\* the list generate_migration_insights returns
migration_insights(migration_df) ==
  LET high_risk == nlargest_rows(migration_df.rows, 10, "Migration_Risk")
  IN IF Len(high_risk) > 0
     THEN <<[category |-> "Migration Patterns",
             severity |-> "HIGH",
             finding |-> Num(Len(high_risk)),
             details |-> to_dict_records(high_risk, <<"State", "District", "Migration_Risk">>)]>>
     ELSE <<>>

\* Age_Group.str.contains('Child', case=False) on the age groups of the
\* model: "Child (0-5)" is StrOther(7), "Adult (26-40)" is StrOther(8),
\* "children (6-17)" is StrOther(9)
contains_child(c) == c.t = "str_other" /\ c.v \in {7, 9}

\* the exception generate_biometric_insights raises, "none" when it returns
biometric_insights_error(coverage_df) ==
  IF "Biometric_Coverage" \notin ColSet(coverage_df) THEN "KeyError"
  ELSE IF Len(coverage_df.rows) > 0 /\ "State" \notin ColSet(coverage_df) THEN "KeyError"
  ELSE "none"

\* the list generate_biometric_insights returns, Biometric_Coverage a
\* numeric column
biometric_insights(coverage_df) ==
  LET low_coverage ==
        SelectSeq(coverage_df.rows,
                  LAMBDA r : r.c["Biometric_Coverage"].t \in {"num", "ninf"}
                             /\ FLess(r.c["Biometric_Coverage"], Num(30)))
  IN IF Len(low_coverage) > 0
     THEN <<[category |-> "Biometric Coverage",
             severity |-> "CRITICAL",
             finding |-> Num(Len(low_coverage)),
             details |-> to_dict_records(low_coverage, <<"State", "Biometric_Coverage">>)]>>
     ELSE <<>>

\* the exception generate_age_group_insights raises, "none" when it
\* returns: the .str accessor raises on a column that holds no text
age_group_insights_error(age_analysis) ==
  IF "enrolment_age" \notin DOMAIN age_analysis THEN "none"
  ELSE LET child_enrol == age_analysis["enrolment_age"]
       IN IF "Age_Group" \notin ColSet(child_enrol) THEN "KeyError"
          ELSE IF child_enrol.dtypes["Age_Group"] # "object" THEN "AttributeError"
          ELSE IF \E k \in 1..Len(child_enrol.rows) : contains_child(child_enrol.rows[k].c["Age_Group"])
                  /\ "Aadhaar Generated" \notin ColSet(child_enrol)
          THEN "KeyError"
          ELSE "none"

\* the list generate_age_group_insights returns
age_group_insights(age_analysis) ==
  IF "enrolment_age" \in DOMAIN age_analysis
  THEN LET child_enrol == age_analysis["enrolment_age"]
           child_rows == SelectSeq(child_enrol.rows, LAMBDA r : contains_child(r.c["Age_Group"]))
       IN IF Len(child_rows) > 0
          THEN <<[category |-> "Child Identity Coverage",
                  severity |-> "HIGH",
                  finding |-> series_sum([k \in 1..Len(child_rows) |->
                                            child_rows[k].c["Aadhaar Generated"]]),
                  details |-> to_dict_records(child_rows, child_enrol.columns)]>>
          ELSE <<>>
  ELSE <<>>

\* a call of an InsightGenerator method on the batch arg
generate_migration_insights ==
  /\ op = "batch"
  /\ DOMAIN arg = {"migration_df"}
  /\ op' = "generate_migration_insights"
  /\ err' = migration_insights_error(arg.migration_df)
  /\ ret' = IF err' = "none" THEN migration_insights(arg.migration_df) ELSE None
  /\ UNCHANGED <<arg, dfs, read, ml>>

generate_biometric_insights ==
  /\ op = "batch"
  /\ DOMAIN arg = {"biometric_df"}
  /\ op' = "generate_biometric_insights"
  /\ err' = biometric_insights_error(arg.biometric_df)
  /\ ret' = IF err' = "none" THEN biometric_insights(arg.biometric_df) ELSE None
  /\ UNCHANGED <<arg, dfs, read, ml>>

generate_age_group_insights ==
  /\ op = "batch"
  /\ DOMAIN arg = {"age_analysis"}
  /\ op' = "generate_age_group_insights"
  /\ err' = age_group_insights_error(arg.age_analysis)
  /\ ret' = IF err' = "none" THEN age_group_insights(arg.age_analysis) ELSE None
  /\ UNCHANGED <<arg, dfs, read, ml>>

(***************************************************************************)
(* SpecInsight: each InsightGenerator method applied to a result of the    *)
(* pipeline                                                                *)
(***************************************************************************)
MaxInsightRows == 11
MaxCoverageRows == 2

\* migration results: the column-less frame calculate_migration_indicators
\* returns when it does not find its columns, and frames of up to
\* MaxInsightRows districts, district k in row k, with a risk of 0 or 100
MigrationResults ==
  {EmptyFrame} \cup
  { [loaded |-> TRUE,
     columns |-> MigrationColumns,
     dtypes |-> ("State" :> "object") @@
                [col \in Range(MigrationColumns) \ {"State"} |-> "number"],
     rows |-> [k \in 1..Len(risk) |->
        [i |-> k - 1,
         c |-> ("State" :> StrOther(1)) @@ ("District" :> Num(k)) @@ ("Enrolment" :> Num(9))
               @@ ("Updates" :> Num(1)) @@ ("Update_Rate" :> Num(10))
               @@ ("Migration_Risk" :> risk[k])]]] :
      risk \in UNION {[1..n -> {Num(0), Num(100)}] : n \in 0..MaxInsightRows} }

\* biometric results: the column-less frame calculate_biometric_quality
\* returns without a State column, and frames of up to MaxCoverageRows
\* states, state k in row k, with a coverage that is missing, 0, 30 or 50
BiometricResults ==
  {EmptyFrame} \cup
  { [loaded |-> TRUE,
     columns |-> BiometricHealthColumns,
     dtypes |-> [col \in Range(BiometricHealthColumns) |-> "number"],
     rows |-> [k \in 1..Len(cov) |->
        [i |-> k - 1,
         c |-> ("State" :> Num(k)) @@ ("Total_Updates" :> Num(3)) @@ ("Avg_Updates" :> Num(3))
               @@ ("Individuals_Updated" :> Num(1)) @@ ("Biometric_Coverage" :> cov[k])]]] :
      cov \in UNION {[1..n -> {NaN, Num(0), Num(30), Num(50)}] : n \in 0..MaxCoverageRows} }

\* age analyses: calculate_age_group_analysis on an enrolment dataset with
\* up to MaxCoverageRows rows whose Age_Group is missing, a text or a number
AgeAnalyses ==
  { age_group_analysis(read_csv(cr, <<"Age_Group", "Aadhaar Generated">>), None, None) :
      cr \in UNION { UNION {[1..n ->
        { ("Age_Group" :> g) @@ ("Aadhaar Generated" :> a) : g \in G, a \in {Num(1), Num(2)} }] :
          n \in 0..MaxCoverageRows} :
        G \in {{NaN, StrOther(7), StrOther(8), StrOther(9)}, {NaN, Num(5)}} } }
  \cup {age_group_analysis(None, None, None)}

InitInsight ==
  /\ enrolment_df = None
  /\ demographic_df = None
  /\ biometric_df = None
  /\ op = "batch"
  /\ ret = None
  /\ err = "none"
  /\ arg \in [migration_df : MigrationResults] \cup [biometric_df : BiometricResults]
             \cup [age_analysis : AgeAnalyses]
  /\ read = {}
  /\ NoModels

NextInsight ==
  \/ generate_migration_insights
  \/ generate_biometric_insights
  \/ generate_age_group_insights

SpecInsight == InitInsight /\ [][NextInsight]_vars

\* the smaller of two numbers
MinOf(a, b) == IF a < b THEN a ELSE b

\* insights is a list of exactly one insight of the given severity whose
\* details are the given records
OneInsight(insights, severity, details) ==
  /\ Len(insights) = 1
  /\ insights[1].severity = severity
  /\ insights[1].details = details

\* the rows of df chosen by the positions P, in the order of df, over the
\* given columns
RowsAt(df, P, columns) ==
  to_dict_records(SelectSeq(df.rows, LAMBDA r : (r.i + 1) \in P), columns)

\* C18: each InsightGenerator method raises nothing, returns the empty
\* list when its triggering set is empty and otherwise exactly one insight,
\* HIGH for migration, CRITICAL for biometric and HIGH for age groups,
\* whose details are the triggering rows: for migration the (at most 10)
\* rows with the largest Migration_Risk, for biometric the states whose
\* Biometric_Coverage is below 30, for age groups the rows whose Age_Group
\* contains 'Child'.
C18_InsightEmission ==
  /\ op = "generate_migration_insights" =>
       LET df == arg.migration_df
           n == Len(df.rows)
       IN /\ err = "none"
          /\ IF n = 0 THEN ret = <<>>
             ELSE /\ Len(ret) = 1
                  /\ ret[1].severity = "HIGH"
                  /\ Len(ret[1].details) = MinOf(n, 10)
                  /\ LET D == ret[1].details
                         P == {D[j]["District"].v : j \in 1..Len(D)}
                     IN /\ Cardinality(P) = Len(D)
                        /\ \A j \in 1..Len(D) :
                             D[j] = [col \in {"State", "District", "Migration_Risk"} |->
                                       df.rows[D[j]["District"].v].c[col]]
                        /\ \A k \in (1..n) \ P : \A p \in P :
                             FLeq(df.rows[k].c["Migration_Risk"], df.rows[p].c["Migration_Risk"])
  /\ op = "generate_biometric_insights" =>
       LET df == arg.biometric_df
           low == {k \in 1..Len(df.rows) :
                     /\ df.rows[k].c["Biometric_Coverage"].t = "num"
                     /\ FLess(df.rows[k].c["Biometric_Coverage"], Num(30))}
       IN /\ err = "none"
          /\ IF low = {} THEN ret = <<>>
             ELSE OneInsight(ret, "CRITICAL", RowsAt(df, low, <<"State", "Biometric_Coverage">>))
  /\ op = "generate_age_group_insights" =>
       LET has == "enrolment_age" \in DOMAIN arg.age_analysis
           df == IF has THEN arg.age_analysis["enrolment_age"] ELSE EmptyFrame
           child == {k \in 1..Len(df.rows) : df.rows[k].c["Age_Group"].v \in {7, 9}
                                             /\ df.rows[k].c["Age_Group"].t = "str_other"}
       IN /\ err = "none"
          /\ IF child = {} THEN ret = <<>>
             ELSE OneInsight(ret, "HIGH", RowsAt(df, child, df.columns))

(***************************************************************************)
(* The remaining operations of the pipeline, on its stored datasets        *)
(***************************************************************************)
\* s.nunique(): the number of distinct values of s, missing values left out
nunique(s) == Cardinality({s[k] : k \in {j \in DOMAIN s : ~isnull(s[j])}})

\* df[col].nunique() if col in df.columns else 0
nunique_or_0(df, col) == IF col \in ColSet(df) THEN nunique(Series(df, col)) ELSE 0

\* insights['summary_stats']: an entry for each dataset that is not None
summary_stats(enrol, demo, bio) ==
  [d \in (IF IsNone(enrol) THEN {} ELSE {"enrolment"})
         \cup (IF IsNone(demo) THEN {} ELSE {"demographic"})
         \cup (IF IsNone(bio) THEN {} ELSE {"biometric"}) |->
     CASE d = "enrolment" ->
            [total_records |-> Len(enrol.rows),
             states |-> nunique_or_0(enrol, "State"),
             districts |-> nunique_or_0(enrol, "District")]
       [] d = "demographic" ->
            [total_records |-> Len(demo.rows),
             states |-> nunique_or_0(demo, "State"),
             update_types |-> nunique_or_0(demo, "Update_Type")]
       [] d = "biometric" ->
            [total_records |-> Len(bio.rows),
             states |-> nunique_or_0(bio, "State")]]

\* the dict generate_insights returns, without its timestamp
insights(enrol, demo, bio) ==
  [datasets_loaded |-> [enrolment |-> ~IsNone(enrol),
                        demographic |-> ~IsNone(demo),
                        biometric |-> ~IsNone(bio)],
   summary_stats |-> summary_stats(enrol, demo, bio),
   anomalies |-> <<>>,
   key_metrics |-> <<>>]

generate_insights ==
  /\ op' = "generate_insights"
  /\ err' = "none"
  /\ ret' = insights(enrolment_df, demographic_df, biometric_df)
  /\ arg' = None
  /\ UNCHANGED <<dfs, read, ml>>

\* the stored datasets that are loaded
StoredLoaded == {df \in {enrolment_df, demographic_df, biometric_df} : ~IsNone(df)}

\* the value columns the calls of the model name
ValueColumns == {"Aadhaar Generated", "Update_Count"}

\* aggregate_by_state_district(df, value_col) on a stored dataset, value_col
\* a numeric column of it or a column it does not have
aggregate_by_state_district ==
  \E df \in StoredLoaded, value_col \in ValueColumns :
    /\ value_col \in ColSet(df) => df.dtypes[value_col] = "number"
    /\ aggregate_call(df, value_col)

\* identify_anomalies(df, column) on a stored dataset, with the default
\* threshold 2.5
identify_anomalies ==
  \E df \in StoredLoaded, column \in ValueColumns :
    identify_anomalies_call(df, column, Frac(5, 0, 2, 0))

Next ==
  \/ load_datasets
  \/ clean_enrolment_data
  \/ clean_demographic_data
  \/ clean_biometric_data
  \/ aggregate_by_state_district
  \/ calculate_migration_indicators
  \/ calculate_biometric_quality
  \/ calculate_age_group_analysis
  \/ identify_anomalies
  \/ generate_insights

Spec == Init /\ [][Next]_vars

DatasetNames == {"enrolment", "demographic", "biometric"}

\* the stored dataset of the given name
DatasetOf(d) ==
  CASE d = "enrolment" -> enrolment_df
    [] d = "demographic" -> demographic_df
    [] d = "biometric" -> biometric_df

\* C19: after any sequence of load_datasets, clean_* and calculate_* calls,
\* generate_insights reports datasets_loaded[d] = true for exactly the
\* datasets some earlier load_datasets call has read, and summary_stats has
\* an entry for exactly those; and no step returns a loaded dataset to
\* not-loaded (a load_datasets call leaves the datasets it does not read as
\* they were).
C19_InsightsReportWhatWasRead ==
  /\ [](op = "generate_insights" =>
          /\ \A d \in DatasetNames : ret.datasets_loaded[d] = (d \in read)
          /\ DOMAIN ret.summary_stats = read)
  /\ [][\A d \in DatasetNames : ~IsNone(DatasetOf(d)) => ~IsNone(DatasetOf(d)')]_vars

\* generate_insights has reported on a pipeline whose loads have read the
\* enrolment and the biometric dataset and never the demographic one
C19_Witness ==
  /\ op = "generate_insights"
  /\ read = {"enrolment", "biometric"}
  /\ ret.datasets_loaded =
       [enrolment |-> TRUE, demographic |-> FALSE, biometric |-> TRUE]
  /\ DOMAIN ret.summary_stats = {"enrolment", "biometric"}
  /\ ret.summary_stats["biometric"].total_records = 3

\* the operations outside the loader and the cleaners
ReadOnlyOps ==
  {"aggregate_by_state_district", "calculate_migration_indicators",
   "calculate_biometric_quality", "calculate_age_group_analysis",
   "identify_anomalies", "generate_insights"}

\* C20: aggregate_by_state_district, calculate_migration_indicators,
\* calculate_biometric_quality, calculate_age_group_analysis,
\* identify_anomalies and generate_insights leave the three stored datasets
\* unchanged, and the dataset passed as argument is after the call what it
\* was before; each clean_* operation leaves the two datasets that are not
\* its own unchanged.
C20_ReadOnlyOutsideLoaderAndCleaner ==
  [][/\ op' \in ReadOnlyOps => UNCHANGED dfs
     /\ op' \in {"aggregate_by_state_district", "identify_anomalies"}
          => arg'.df \in {enrolment_df, demographic_df, biometric_df}
     /\ op' = "clean_enrolment_data" => UNCHANGED <<demographic_df, biometric_df>>
     /\ op' = "clean_demographic_data" => UNCHANGED <<enrolment_df, biometric_df>>
     /\ op' = "clean_biometric_data" => UNCHANGED <<enrolment_df, demographic_df>>]_vars

\* calculate_biometric_quality has returned a frame of two states computed
\* from the stored biometric dataset of three rows, which is still stored,
\* next to an enrolment dataset that a cleaner has changed
C20_Witness ==
  /\ op = "calculate_biometric_quality"
  /\ err = "none"
  /\ Len(ret.rows) = 2
  /\ Len(biometric_df.rows) = 3
  /\ ret # biometric_df
  /\ ~IsNone(enrolment_df)
  /\ enrolment_df \notin EnrolmentFiles

CachedFields == <<isolation_forest, lof, scaler>>

\* C21: the isolation_forest field of an AnomalyDetector is not set after
\* construction, becomes set only by a detect_isolation_forest call that
\* succeeds, is set after every such call and is never reset; a failing
\* detect_isolation_forest or detect_lof call and every get_anomaly_scores
\* call leave isolation_forest, lof and scaler unchanged; and
\* get_anomaly_scores returns a vector of len(X) zeros whenever
\* isolation_forest is not set.
C21_CachedModelState ==
  /\ [](op = "__init__" => ~isolation_forest.fitted)
  /\ [](op = "get_anomaly_scores" /\ ~isolation_forest.fitted
          => ret.out = [k \in 1..Len(arg.rows) |-> Num(0)])
  /\ [][/\ isolation_forest' # isolation_forest
             => op' = "detect_isolation_forest" /\ ret'.log = "none"
        /\ isolation_forest.fitted => isolation_forest'.fitted
        /\ op' = "detect_isolation_forest" /\ ret'.log = "none" => isolation_forest'.fitted
        /\ op' \in {"detect_isolation_forest", "detect_lof"} /\ ret'.log = "error"
             => UNCHANGED CachedFields
        /\ op' = "get_anomaly_scores" => UNCHANGED CachedFields]_vars

\* get_anomaly_scores has returned two zeros on a detector whose lof is set
\* and whose isolation_forest is not
C21_Witness ==
  /\ op = "get_anomaly_scores"
  /\ ret.log = "none"
  /\ ret.out = <<Num(0), Num(0)>>
  /\ Len(arg.rows) = 2
  /\ ~isolation_forest.fitted
  /\ ~scaler.fitted
  /\ lof.fitted

\* the Update_Rate of row k of the scored batch, a missing rate counted as 0
RateOf(k) ==
  IF isnull(arg.rows[k].c["Update_Rate"]) THEN Num(0) ELSE arg.rows[k].c["Update_Rate"]

\* the Migration_Risk returned for row k
RiskOf(k) == ret.rows[k].c["Migration_Risk"]

\* C22: within a batch, a row whose Update_Rate (missing counted as 0) is
\* less than or equal to another row's has a Migration_Risk less than or
\* equal to that row's, and when the batch has more than one distinct
\* Update_Rate every row holding the smallest one has Migration_Risk 0.
C22_RiskOrderPreserving ==
  RiskDone =>
    LET rows == 1..Len(arg.rows)
    IN /\ \A a, b \in rows : FLeq(RateOf(a), RateOf(b)) => FLeq(RiskOf(a), RiskOf(b))
       /\ Cardinality({RateOf(k) : k \in rows}) > 1
            => \A k \in rows :
                 (\A j \in rows : FLeq(RateOf(k), RateOf(j))) => RiskOf(k) = Num(0)
====
